---------------------------- MODULE Spec2Model ----------------------------
(***************************************************************************)
(* vectorium: the chunked, counter-policy ingestion binary                 *)
(* (vectorium-db/src/main.rs) with its embedding adapter                   *)
(* (vectorium-common/src/lib.rs), and the hash-policy ingestion of         *)
(* DocumentRepository (vectorium-db/src/repository.rs).                    *)
(*                                                                         *)
(* Spec is one run of the binary over files whose lines are inputs;        *)
(* SpecDir is one run, then a second, of the binary or of the repository   *)
(* over a directory fixed beforehand; SpecExample is the binary over a     *)
(* single file; SpecUpsert is upsert_batch alone and SpecChunk             *)
(* process_chunk alone.  SpecSetup is the setup program (src/main.rs) with *)
(* initialize_db (vectorium-db/src/lib.rs); SpecConcurrent is two runs of  *)
(* the repository at the same time.  SpecCounter is the counter server     *)
(* (vectorium-counter/src/main.rs) under concurrent tool calls and SpecSum *)
(* its sum tool alone.                                                     *)
(*                                                                         *)
(* A run is the async main of vectorium-db/src/main.rs.  Every await on an *)
(* external collaborator (vector index, embedding backend, file system)    *)
(* is one step of the model; the outcome of the collaborator is the        *)
(* input of the step.  File contents are read lazily, line by line, as     *)
(* BufReader::lines does, so the text of a line is the input of the read   *)
(* step.                                                                   *)
(***************************************************************************)
EXTENDS Integers, Sequences, FiniteSets, TLC

(***************************************************************************)
(* Bounds of the model.                                                    *)
(***************************************************************************)
\* files returned by file discovery
MaxFiles == 2
\* raw lines read during one run (all files together)
MaxLines == 4
\* configured chunk_size ranges over 0..MaxChunk
MaxChunk == 2
\* configured batch_size ranges over 0..MaxBatch
MaxBatch == 2
\* length of the buffer handed to upsert_batch when it is exercised alone
MaxBuf == 2
\* calls of upsert_batch when it is exercised alone
MaxCalls == 3
\* the most lines a directory fixed beforehand holds, all files together
MaxDirLines == 2
\* the largest chunk_size and batch_size of a run over such a directory
MaxDirChunk == 2
MaxDirBatch == 1
\* the most lines of the file of a single-file run
MaxExampleLines == 3
\* the largest batch_size of a single-file run
MaxExampleBatch == 4
\* the longest chunk handed to process_chunk when it is exercised alone
MaxChunkLen == 2
\* start_id ranges over 0..MaxStartId when process_chunk is exercised alone
MaxStartId == 3
\* the backend returns up to MaxDelta vectors more, or fewer, than texts
MaxDelta == 1
\* tool calls the counter server handles at the same time
MaxToolCalls == 3

(***************************************************************************)
(* Text.  A line is a sequence of characters; " " stands for any           *)
(* whitespace character.  The lines a file may hold: a whitespace-only     *)
(* line, a line of text, a line of text with leading whitespace.           *)
(***************************************************************************)
LineValues == { <<" ">>, <<"a">>, <<" ", "b">> }

IsWhitespace(c) == c \in { " ", "\n" }

RECURSIVE TrimStart(_)
TrimStart(s) ==
    IF s # <<>> /\ IsWhitespace(Head(s)) THEN TrimStart(Tail(s)) ELSE s

RECURSIVE TrimEnd(_)
TrimEnd(s) ==
    IF s # <<>> /\ IsWhitespace(s[Len(s)])
    THEN TrimEnd(SubSeq(s, 1, Len(s) - 1))
    ELSE s

\* str::trim
Trim(s) == TrimEnd(TrimStart(s))

Min(a, b) == IF a <= b THEN a ELSE b

SeqToSet(s) == { s[i] : i \in DOMAIN s }

(***************************************************************************)
(* State.                                                                  *)
(***************************************************************************)
VARIABLES
    entry,              \* the entry point that runs: main, repository, ...
    dir,                \* the directory, when its contents are fixed beforehand
    run,                \* the number of the run over the directory
    prev,               \* history: what the run before this one left
    chunk_size,         \* ProcessingConfig.chunk_size
    batch_size,         \* ProcessingConfig.batch_size
    backend,            \* vectors the backend returns, relative to its input
    coll_exists,        \* the collection exists in the vector index
    coll_size,          \* the vector size the collection was created with
    index,              \* points stored in the collection
    pc,                 \* position of the run
    file_paths,         \* main: the discovered files, in discovery order
    fi,                 \* main: files process_file has returned Ok for
    main_id,            \* main: current_id
    current_id,         \* process_file: current_id
    chunk_buffer,       \* process_file: chunk_buffer
    batch_points,       \* process_file: batch_points
    result,             \* what the entry point returned: running, Ok, Err, Panic
    err,                \* the context of the returned error
    files_read,         \* history: raw lines read from each file so far
    embed_calls,        \* history: chunks handed to get_embedding
    built,              \* history: points built by process_chunk
    upsert_calls,       \* history: upsert_points calls and their outcome
    upsert_invocations, \* history: calls of upsert_batch
    failure,            \* history: the first collaborator failure of the run
    peer,               \* a second repository run on the same collection
    counter,            \* counter server: the i32 behind Arc<Mutex<i32>>
    lock,               \* counter server: the holder of the Mutex
    tool_calls          \* counter server: the tool calls and their progress

vars == << entry, dir, run, prev, chunk_size, batch_size, backend, coll_exists,
           coll_size, index, pc, file_paths,
           fi, main_id, current_id, chunk_buffer, batch_points, result, err,
           files_read, embed_calls, built, upsert_calls, upsert_invocations,
           failure, peer, counter, lock, tool_calls >>

\* what a run is given and does not change, and the state of what runs
\* beside it and it does not touch
config == << entry, dir, run, prev, chunk_size, batch_size, backend,
             peer, counter, lock, tool_calls >>
locals == << current_id, chunk_buffer, batch_points >>
logs == << files_read, embed_calls, built, upsert_calls, upsert_invocations >>


(***************************************************************************)
(* Paths.  A path is a number naming an entry of PathTable: a.txt, b.txt,  *)
(* a.md, and two files whose extension is, literally, {txt,md}.  Stems     *)
(* compare alphabetically, as their numbers do.                            *)
(***************************************************************************)
PathTable ==
    << [stem |-> 1, ext |-> "txt"],
       [stem |-> 2, ext |-> "txt"],
       [stem |-> 1, ext |-> "md"],
       [stem |-> 3, ext |-> "{txt,md}"],
       [stem |-> 4, ext |-> "{txt,md}"] >>

Stem(path) == PathTable[path].stem
Ext(path) == PathTable[path].ext

\* GlobMatches with a fault: * swallows the extension too
RECURSIVE GlobMatchesAny(_, _)
GlobMatchesAny(paths, ext) ==
    IF paths = {} THEN <<>>
    ELSE LET first == CHOOSE p \in paths : \A q \in paths : p <= q
         IN  << first >> \o GlobMatchesAny(paths \ { first }, ext)

\* glob::glob on <dir>/*.<ext>: the paths of the directory whose extension is
\* ext, character for character, in alphabetical order
RECURSIVE GlobMatches(_, _)
GlobMatches(paths, ext) ==
    LET hits == { p \in paths : Ext(p) = ext }
    IN  IF hits = {} THEN <<>>
        ELSE LET first == CHOOSE p \in hits : \A q \in hits : Stem(p) <= Stem(q)
             IN  << first >> \o GlobMatches(paths \ { first }, ext)

\* DiscoverTxtThenMd with a fault: the md pattern comes first
DiscoverMdThenTxt(paths) == GlobMatches(paths, "md") \o GlobMatches(paths, "txt")

\* main: the patterns data/*.txt and data/*.md, flat-mapped in this order
DiscoverTxtThenMd(paths) == GlobMatches(paths, "txt") \o GlobMatches(paths, "md")

\* a run whose directory is not fixed beforehand: the files and their lines
\* are the inputs of the steps that read them
NoDir == [known |-> FALSE, files |-> <<>>]

\* no run came before
NoPrev == [built |-> <<>>, index |-> {}]

(***************************************************************************)
(* Pure parts of the code.                                                 *)
(***************************************************************************)
\* IsNonEmptyLine with a fault: the line is tested without trimming it
IsNonEmptyLineUntrimmed(content) == content # <<>>

\* read_non_empty_lines: the filter_map guard
IsNonEmptyLine(content) == Trim(content) # <<>>

\* YieldedLine with a fault: the trimmed form is yielded
YieldedLineTrimmed(content) == Trim(content)

\* read_non_empty_lines: what the iterator yields for a line that passes
YieldedLine(content) == content

\* the sentence-embedding model get_embedding loads, and the one
\* DocumentRepository::new loads
MainModel == "AllMiniLmL12V2"
RepoModel == "AllMiniLML6V2"

\* the output dimensionality of a model: both all-MiniLM-L12-v2 and
\* all-MiniLM-L6-v2 produce vectors of 384 components
EmbeddingDim(model) ==
    CASE model = "AllMiniLmL12V2" -> 384
      [] model = "AllMiniLML6V2" -> 384

\* the embedding of one text, an opaque value determined by the text
Embedding(text) == [of |-> text]

\* get_embedding: the vectors returned for texts; delta is the number of
\* vectors the backend returns beyond (or, negative, short of) one per text
GetEmbedding(texts, delta) ==
    LET n == IF Len(texts) + delta < 0 THEN 0 ELSE Len(texts) + delta
    IN  [i \in 1..n |-> IF i <= Len(texts) THEN Embedding(texts[i])
                                            ELSE Embedding(<<>>)]

\* PathBuf::file_name of a discovered path: a file is named by the number
\* of its path (its place in the discovery order when the directory is not
\* fixed beforehand)
Title(file_path) == file_path

\* ProcessChunk with a fault: the ids start at start_id
ProcessChunkZeroBased(chunk, start_id, title, embeddings) ==
    LET n == Min(Len(embeddings), Len(chunk))
        points == [i \in 1..n |->
                     [id     |-> start_id + (i - 1),
                      title  |-> title,
                      text   |-> chunk[i],
                      vector |-> embeddings[i]]]
    IN  [total_points |-> start_id + Len(points), points |-> points]

\* ProcessChunk with a fault: total_points counts the lines of the chunk
ProcessChunkCountsLines(chunk, start_id, title, embeddings) ==
    LET n == Min(Len(embeddings), Len(chunk))
        points == [i \in 1..n |->
                     [id     |-> start_id + (i - 1) + 1,
                      title  |-> title,
                      text   |-> chunk[i],
                      vector |-> embeddings[i]]]
    IN  [total_points |-> start_id + Len(chunk), points |-> points]

\* process_chunk: the ProcessingResult built from the embeddings
ProcessChunk(chunk, start_id, title, embeddings) ==
    LET n == Min(Len(embeddings), Len(chunk))
        points == [i \in 1..n |->
                     [id     |-> start_id + (i - 1) + 1,
                      title  |-> title,
                      text   |-> chunk[i],
                      vector |-> embeddings[i]]]
    IN  [total_points |-> start_id + Len(points), points |-> points]

\* ChunkFull with a fault: > in place of >=
ChunkFullStrict(buf, cs) == Len(buf) > cs

\* process_file: the chunk test after a push
ChunkFull(buf, cs) == Len(buf) >= cs

\* BatchFull with a fault: > in place of >=
BatchFullStrict(bp, bs, cs) == Len(bp) > bs * cs

\* process_file: the batch test after a chunk was processed
BatchFull(bp, bs, cs) == Len(bp) >= bs * cs

\* HasRemainder with a fault: the partial chunk is never processed
HasRemainderNever(buf) == FALSE

\* process_file: a partial chunk is left when the lines are exhausted
HasRemainder(buf) == buf # <<>>

\* NeedsFinalFlush with a fault: the remaining batch is never flushed
NeedsFinalFlushNever(bp) == FALSE

\* process_file: points are left when the lines are exhausted
NeedsFinalFlush(bp) == bp # <<>>

\* StartId with a fault: every file starts from 0 again
StartIdReset(id) == 0

\* main: the id process_file starts from
StartId(id) == id

\* SendsRequest with a fault: no early return on an empty buffer
SendsRequestAlways(bp) == TRUE

\* upsert_batch: the early return on an empty buffer
SendsRequest(bp) == bp # <<>>

\* BufferAfterUpsert with a fault: the buffer is cleared before the answer
BufferAfterUpsertCleared(bp, ok) == <<>>

\* upsert_batch: the buffer after the upsert_points call answered
BufferAfterUpsert(bp, ok) == IF ok THEN <<>> ELSE bp

\* UpsertBatchReturnsOk with a fault: the error of upsert_points is dropped
UpsertBatchIgnoresError(bp, ok) == TRUE

\* upsert_batch: the call returns Ok
UpsertBatchReturnsOk(bp, ok) == ~SendsRequest(bp) \/ ok

\* the vector index: insert-or-overwrite by id
UpsertPoints(idx, pts) ==
    { p \in idx : \A i \in DOMAIN pts : pts[i].id # p.id } \cup SeqToSet(pts)

\* the point an earlier run left in the collection
StalePoint == [id |-> 1, title |-> 0, text |-> <<"a">>, vector |-> Embedding(<<"a">>)]

(***************************************************************************)
(* upsert_batch, as a step on batch_points and the vector index; ok is the *)
(* answer of the index to upsert_points.                                   *)
(***************************************************************************)
UpsertBatch(ok) ==
    /\ upsert_invocations' = upsert_invocations + 1
    /\ IF SendsRequest(batch_points)
       THEN /\ upsert_calls' = Append(upsert_calls,
                                      [points |-> batch_points, ok |-> ok])
            /\ index' = IF ok THEN UpsertPoints(index, batch_points) ELSE index
            /\ batch_points' = BufferAfterUpsert(batch_points, ok)
       ELSE UNCHANGED << upsert_calls, index, batch_points >>

(***************************************************************************)
(* How a step of the run ends.                                             *)
(***************************************************************************)
\* an Err propagated by ? up to the caller of main
Fail(context) ==
    /\ pc' = "failed"
    /\ result' = "Err"
    /\ err' = context
    /\ UNCHANGED << fi, main_id >>

\* a panic unwinding through main
Panic ==
    /\ pc' = "panicked"
    /\ result' = "Panic"
    /\ UNCHANGED << err, fi, main_id >>

\* process_file returns Ok(id) to the loop of main
Return(id) ==
    /\ pc' = "loop"
    /\ main_id' = id
    /\ fi' = fi + 1
    /\ UNCHANGED << result, err >>

\* the run goes on at position p
Goto(p) ==
    /\ pc' = p
    /\ UNCHANGED << fi, main_id, result, err >>

\* raw lines read so far, all files together
RECURSIVE TotalLen(_)
TotalLen(ss) == IF ss = <<>> THEN 0 ELSE Len(Head(ss)) + TotalLen(Tail(ss))

(***************************************************************************)
(* Init: main before initialize_collection.                                *)
(***************************************************************************)
\* SentenceEmbeddingsModel::encode returns one embedding per input sentence
BackendDelta == 0

\* initialize_collection: VectorParamsBuilder::new(512, Distance::Cosine)
KnowledgeVectorSize == 512

\* no second run and no counter server beside the run
NoPeer == [pc |-> "off"]
NoOthers ==
    /\ peer = NoPeer
    /\ counter = 0
    /\ lock = "free"
    /\ tool_calls = <<>>

\* RunStartId with a fault: the counter of the run before is carried on
RunStartIdCarried(last_id) == last_id

\* main: let mut current_id = 0u64, whatever the run before ended with
RunStartId(last_id) == 0

Init ==
    /\ entry = "main"
    /\ dir = NoDir
    /\ run = 1
    /\ prev = NoPrev
    /\ chunk_size \in 0..MaxChunk
    /\ batch_size \in 0..MaxBatch
    /\ backend = BackendDelta
    /\ coll_exists \in BOOLEAN
    /\ coll_size = IF coll_exists THEN KnowledgeVectorSize ELSE 0
    /\ index = IF coll_exists THEN { StalePoint } ELSE {}
    /\ pc = "delete"
    /\ file_paths = <<>>
    /\ fi = 0
    /\ main_id = RunStartId(0)
    /\ current_id = 0
    /\ chunk_buffer = <<>>
    /\ batch_points = <<>>
    /\ result = "running"
    /\ err = "none"
    /\ files_read = <<>>
    /\ embed_calls = <<>>
    /\ built = <<>>
    /\ upsert_calls = <<>>
    /\ upsert_invocations = 0
    /\ failure = "none"
    /\ NoOthers

(***************************************************************************)
(* initialize_collection                                                   *)
(***************************************************************************)
\* delete_collection; its error is ignored
DeleteCollection(ok) ==
    /\ pc = "delete"
    /\ coll_exists' = IF ok THEN FALSE ELSE coll_exists
    /\ coll_size' = IF ok THEN 0 ELSE coll_size
    /\ index' = IF ok THEN {} ELSE index
    /\ Goto("create")
    /\ UNCHANGED << config, file_paths, locals, logs, failure >>

\* CreateResult with a fault: the error of create_collection is dropped,
\* as the one of delete_collection is
CreateResultIgnored(created) == "Ok"

\* create_collection(...).await.context("Failed to create collection")?
CreateResult(created) == IF created THEN "Ok" ELSE "Err"

\* create_collection; the index refuses a name that exists
CreateCollection(ok) ==
    /\ pc = "create"
    /\ LET created == ok /\ ~coll_exists
       IN  /\ IF created
              THEN /\ coll_exists' = TRUE
                   /\ coll_size' = KnowledgeVectorSize
                   /\ index' = {}
                   /\ UNCHANGED failure
              ELSE /\ failure' = "create"
                   /\ UNCHANGED << coll_exists, coll_size, index >>
           /\ IF CreateResult(created) = "Ok"
              THEN Goto("glob")
              ELSE Fail("Failed to create collection")
    /\ UNCHANGED << config, file_paths, locals, logs >>

(***************************************************************************)
(* main: file discovery and the loop over the files                        *)
(***************************************************************************)
\* glob over data/*.txt and data/*.md, collected; n files are found, or an
\* entry cannot be read.  The files found are those of the directory when
\* its contents are fixed, and n files named by their position otherwise.
Glob(n, ok) ==
    /\ pc = "glob"
    /\ dir.known => n = Len(DiscoverTxtThenMd(DOMAIN dir.files))
    /\ IF ok
       THEN /\ file_paths' = IF dir.known
                             THEN DiscoverTxtThenMd(DOMAIN dir.files)
                             ELSE [i \in 1..n |-> i]
            /\ Goto("loop")
            /\ UNCHANGED failure
       ELSE /\ Fail("Failed to collect file paths")
            /\ failure' = "glob"
            /\ UNCHANGED file_paths
    /\ UNCHANGED << config, coll_exists, coll_size, index, locals, logs >>

\* main: the loop is over; Ok(())
Finish ==
    /\ pc = "loop"
    /\ fi = Len(file_paths)
    /\ pc' = "done"
    /\ result' = "Ok"
    /\ UNCHANGED << config, coll_exists, coll_size,
                    index, file_paths, fi, main_id, err,
                    locals, logs, failure >>

\* NewBuffer with a fault: the lines left by the previous file are kept
NewBufferCarried(left) == left

\* process_file: chunk_buffer is a new, empty vector at every call; left is
\* what the previous call of process_file left in its own
NewBuffer(left) == <<>>

\* main calls process_file on the next path; read_non_empty_lines opens it
ProcessFileOpen(ok) ==
    /\ pc = "loop"
    /\ fi < Len(file_paths)
    /\ current_id' = StartId(main_id)
    /\ chunk_buffer' = NewBuffer(chunk_buffer)
    /\ batch_points' = <<>>
    /\ files_read' = Append(files_read, <<>>)
    /\ IF ok
       THEN Goto("read") /\ UNCHANGED failure
       ELSE Fail("Failed to open file") /\ failure' = "open"
    /\ UNCHANGED << config, coll_exists, coll_size,
                    index, file_paths, embed_calls, built,
                    upsert_calls, upsert_invocations >>

(***************************************************************************)
(* process_file: the loop over the lines                                   *)
(***************************************************************************)
\* the iterator yields the next raw line of the file
ReadLine(content) ==
    /\ pc = "read"
    /\ IF dir.known
       THEN /\ Len(files_read[fi + 1]) < Len(dir.files[file_paths[fi + 1]])
            /\ content = dir.files[file_paths[fi + 1]][Len(files_read[fi + 1]) + 1]
       ELSE TotalLen(files_read) < MaxLines
    /\ files_read' = [files_read EXCEPT ![fi + 1] = Append(@, content)]
    /\ IF IsNonEmptyLine(content)
       THEN /\ chunk_buffer' = Append(chunk_buffer, YieldedLine(content))
            /\ Goto(IF ChunkFull(chunk_buffer', chunk_size) THEN "chunk" ELSE "read")
       ELSE /\ UNCHANGED chunk_buffer
            /\ Goto("read")
    /\ UNCHANGED << config, coll_exists, coll_size,
                    index, file_paths, current_id,
                    batch_points, embed_calls, built, upsert_calls,
                    upsert_invocations, failure >>

\* a read fails mid-stream: line_result? returns the error
ReadError ==
    /\ pc = "read"
    /\ Fail("Failed to read line")
    /\ failure' = "read"
    /\ UNCHANGED << config, coll_exists, coll_size,
                    index, file_paths, locals, logs >>

\* BatchExtend with a fault: the new points are put in front
BatchExtendInFront(batch, points) == points \o batch

\* batch_points.extend(result.points)
BatchExtend(batch, points) == batch \o points

\* process_chunk on chunk_buffer, on behalf of both call sites: the effect
\* on current_id, batch_points and the history
ChunkProcessed ==
    LET r == ProcessChunk(chunk_buffer, current_id, Title(file_paths[fi + 1]),
                          GetEmbedding(chunk_buffer, backend))
    IN  /\ embed_calls' = Append(embed_calls,
                                 [file |-> fi + 1, chunk |-> chunk_buffer])
        /\ current_id' = r.total_points
        /\ batch_points' = BatchExtend(batch_points, r.points)
        /\ built' = built \o r.points

\* get_embedding panics (model creation, inference or join failed)
EmbeddingPanics ==
    /\ embed_calls' = Append(embed_calls,
                             [file |-> fi + 1, chunk |-> chunk_buffer])
    /\ Panic
    /\ failure' = "embed"
    /\ UNCHANGED << current_id, batch_points, built, chunk_buffer >>

\* a full chunk is processed inside the loop
ProcessChunkInLoop(ok) ==
    /\ pc = "chunk"
    /\ IF ok
       THEN /\ ChunkProcessed
            /\ IF BatchFull(batch_points', batch_size, chunk_size)
               THEN Goto("flush") /\ UNCHANGED chunk_buffer
               ELSE Goto("read") /\ chunk_buffer' = <<>>
            /\ UNCHANGED failure
       ELSE EmbeddingPanics
    /\ UNCHANGED << config, coll_exists, coll_size,
                    index, file_paths, files_read,
                    upsert_calls, upsert_invocations >>

\* the batch is flushed inside the loop, then the chunk buffer is cleared
FlushInLoop(ok) ==
    /\ pc = "flush"
    /\ UpsertBatch(ok)
    /\ failure' = IF SendsRequest(batch_points) /\ ~ok THEN "upsert" ELSE failure
    /\ IF UpsertBatchReturnsOk(batch_points, ok)
       THEN Goto("read") /\ chunk_buffer' = <<>>
       ELSE Fail("Failed to upsert points") /\ UNCHANGED chunk_buffer
    /\ UNCHANGED << config, coll_exists, coll_size,
                    file_paths, current_id, files_read,
                    embed_calls, built >>

(***************************************************************************)
(* process_file: after the last line                                       *)
(***************************************************************************)
\* the iterator is exhausted
ReadEof ==
    /\ pc = "read"
    /\ dir.known => Len(files_read[fi + 1]) = Len(dir.files[file_paths[fi + 1]])
    /\ IF HasRemainder(chunk_buffer)
       THEN Goto("tail_chunk")
       ELSE IF NeedsFinalFlush(batch_points)
            THEN Goto("tail_flush")
            ELSE Return(current_id)
    /\ UNCHANGED << config, coll_exists, coll_size,
                    index, file_paths, locals, logs,
                    failure >>

\* the remaining partial chunk is processed
ProcessChunkTail(ok) ==
    /\ pc = "tail_chunk"
    /\ IF ok
       THEN /\ ChunkProcessed
            /\ IF NeedsFinalFlush(batch_points')
               THEN Goto("tail_flush")
               ELSE Return(current_id')
            /\ UNCHANGED << chunk_buffer, failure >>
       ELSE EmbeddingPanics
    /\ UNCHANGED << config, coll_exists, coll_size,
                    index, file_paths, files_read,
                    upsert_calls, upsert_invocations >>

\* the remaining batch is flushed
FlushTail(ok) ==
    /\ pc = "tail_flush"
    /\ UpsertBatch(ok)
    /\ failure' = IF SendsRequest(batch_points) /\ ~ok THEN "upsert" ELSE failure
    /\ IF UpsertBatchReturnsOk(batch_points, ok)
       THEN Return(current_id)
       ELSE Fail("Failed to upsert points")
    /\ UNCHANGED << config, coll_exists, coll_size,
                    file_paths, current_id, chunk_buffer,
                    files_read, embed_calls, built >>

(***************************************************************************)
(* The run.                                                                *)
(***************************************************************************)
Next ==
    \/ \E ok \in BOOLEAN : DeleteCollection(ok)
    \/ \E ok \in BOOLEAN : CreateCollection(ok)
    \/ \E n \in 0..MaxFiles, ok \in BOOLEAN : Glob(n, ok)
    \/ Finish
    \/ \E ok \in BOOLEAN : ProcessFileOpen(ok)
    \/ \E content \in LineValues : ReadLine(content)
    \/ ReadError
    \/ \E ok \in BOOLEAN : ProcessChunkInLoop(ok)
    \/ \E ok \in BOOLEAN : FlushInLoop(ok)
    \/ ReadEof
    \/ \E ok \in BOOLEAN : ProcessChunkTail(ok)
    \/ \E ok \in BOOLEAN : FlushTail(ok)

Spec == Init /\ [][Next]_vars

(***************************************************************************)
(* DocumentRepository::upsert_documents_from_directory                     *)
(***************************************************************************)
\* fs::read_to_string: the text of a file, every line with its terminator
RECURSIVE ReadToString(_)
ReadToString(lines) ==
    IF lines = <<>> THEN <<>>
    ELSE Head(lines) \o << "\n" >> \o ReadToString(Tail(lines))

\* initialize_db: VectorParams { size: 384, distance: Cosine }
DocumentsVectorSize == 384

\* the extension part of the pattern format!("{dir_path}/*.{{txt,md}}"); the
\* glob crate has no alternation, the braces stand for themselves
RepoPatternExt == "{txt,md}"

\* glob(&pattern) with its readable entries collected
RepoDiscover(paths) == GlobMatches(paths, RepoPatternExt)

\* DocumentId with a fault: a fresh identifier is drawn for every point
DocumentIdFresh(path, nonce) == [uuid |-> << path, nonce >>]

\* the id of a file's point: the md5 of its path, in hex; nonce is what a
\* generated identifier would be drawn from, and is not used
DocumentId(path, nonce) == [md5 |-> path]

\* content.chars().take(200)
PreviewChars == 200
ContentPreview(content) == SubSeq(content, 1, Min(PreviewChars, Len(content)))

\* the PointStruct built for a file
RepoPoint(path, content, nonce) ==
    [id     |-> DocumentId(path, nonce),
     vector |-> Embedding(content),
     file_path |-> path,
     file_name |-> Title(path),
     last_modified |-> [mtime_of |-> path],
     content_preview |-> ContentPreview(content),
     content |-> content]

\* RepoPush with a fault: the new point takes the place of the others
RepoPushReplaces(points, point) == << point >>

\* points_to_upsert.push
RepoPush(points, point) == Append(points, point)

\* RepoSkips with a fault: only a file of no characters is skipped
RepoSkipsZeroLength(content) == content = <<>>

\* the test that skips a file: content.trim().is_empty()
RepoSkips(content) == Trim(content) = <<>>

\* what the steps of a file can meet: nothing, a failed read, failed
\* metadata, a failed embedding, a panicking unwrap
RepoOutcomes == { "ok", "read", "metadata", "embed", "unwrap" }

\* the pattern is globbed; with no path found the function returns Ok(())
RepoGlob(ok) ==
    /\ pc = "repo_glob"
    /\ dir.known
    /\ IF ok
       THEN /\ file_paths' = RepoDiscover(DOMAIN dir.files)
            /\ IF file_paths' = <<>>
               THEN pc' = "done" /\ result' = "Ok"
               ELSE pc' = "repo_loop" /\ UNCHANGED result
            /\ UNCHANGED << fi, main_id, err, failure >>
       ELSE /\ Fail("PatternError")
            /\ failure' = "glob"
            /\ UNCHANGED file_paths
    /\ UNCHANGED << config, coll_exists, coll_size, index, locals, logs >>

\* one turn of the loop over the paths
RepoFile(outcome) ==
    /\ pc = "repo_loop"
    /\ fi < Len(file_paths)
    /\ LET path == file_paths[fi + 1]
           content == ReadToString(dir.files[path])
           point == RepoPoint(path, content, run)
       IN  IF outcome = "read"
           THEN /\ Fail("Failed to read file")
                /\ failure' = "read"
                /\ UNCHANGED << files_read, embed_calls, built, batch_points >>
           ELSE /\ files_read' = Append(files_read, dir.files[path])
                /\ IF RepoSkips(content)
                   THEN /\ outcome = "ok"
                        /\ pc' = "repo_loop"
                        /\ fi' = fi + 1
                        /\ UNCHANGED << main_id, result, err, failure,
                                        embed_calls, built, batch_points >>
                   ELSE IF outcome = "metadata"
                   THEN /\ Fail("metadata")
                        /\ failure' = "metadata"
                        /\ UNCHANGED << embed_calls, built, batch_points >>
                   ELSE /\ embed_calls' = Append(embed_calls,
                                 [file |-> fi + 1, chunk |-> << content >>])
                        /\ IF outcome = "embed"
                           THEN /\ Fail("Embedding failed")
                                /\ failure' = "embed"
                                /\ UNCHANGED << built, batch_points >>
                           ELSE IF outcome = "unwrap"
                           THEN /\ Panic
                                /\ failure' = "unwrap"
                                /\ UNCHANGED << built, batch_points >>
                           ELSE /\ built' = Append(built, point)
                                /\ batch_points' = RepoPush(batch_points, point)
                                /\ pc' = "repo_loop"
                                /\ fi' = fi + 1
                                /\ UNCHANGED << main_id, result, err, failure >>
    /\ UNCHANGED << config, coll_exists, coll_size,
                    index, file_paths, current_id,
                    chunk_buffer, upsert_calls, upsert_invocations >>

\* RepoWhenToUpsert with a fault: the points are sent after every file
RepoWhenToUpsertEachFile(position, count) == TRUE

\* the points are sent once the loop over the paths is over
RepoWhenToUpsert(position, count) == position = count

\* after the loop: one upsert_points with wait set, unless there is no point
RepoUpsert(ok) ==
    /\ pc = "repo_loop"
    /\ RepoWhenToUpsert(fi, Len(file_paths))
    /\ IF batch_points # <<>>
       THEN /\ upsert_calls' = Append(upsert_calls,
                   [points |-> batch_points, ok |-> ok, wait |-> TRUE])
            /\ upsert_invocations' = upsert_invocations + 1
            /\ index' = IF ok THEN UpsertPoints(index, batch_points) ELSE index
            /\ failure' = IF ok THEN failure ELSE "upsert"
            /\ IF ok
               THEN pc' = "done" /\ result' = "Ok" /\ UNCHANGED << fi, main_id, err >>
               ELSE Fail("upsert_points")
       ELSE /\ pc' = "done"
            /\ result' = "Ok"
            /\ UNCHANGED << fi, main_id, err, upsert_calls,
                            upsert_invocations, index, failure >>
    /\ UNCHANGED << config, coll_exists, coll_size,
                    file_paths, locals, files_read,
                    embed_calls, built >>

(***************************************************************************)
(* Runs over a directory whose contents are fixed beforehand and do not    *)
(* change: the chunked binary or the repository function is run, and, once *)
(* it has returned Ok, run a second time.                                  *)
(***************************************************************************)
\* the lines a file of the directory is made of: a blank one and one with
\* leading whitespace
DirLineValues == { << " " >>, << " ", "b" >> }

\* what the data directory of the binary may hold: a.txt, b.txt, a.md and
\* a file that neither pattern matches
MainDirPaths == { 1, 2, 3, 4 }

\* what the directory handed to the repository may hold: a.txt and the two
\* files with the extension {txt,md}
RepoDirPaths == { 1, 4, 5 }

RECURSIVE DirLines(_, _)
DirLines(files, paths) ==
    IF paths = {} THEN 0
    ELSE LET p == CHOOSE q \in paths : TRUE
         IN  Len(files[p]) + DirLines(files, paths \ { p })

FileValues == UNION { [1..n -> DirLineValues] : n \in 0..MaxDirLines }

\* the directories over paths that hold at most MaxDirLines lines
Dirs(paths) ==
    UNION { { files \in [S -> FileValues] : DirLines(files, S) <= MaxDirLines } :
              S \in SUBSET paths }

InitDir ==
    /\ entry \in { "main", "repository" }
    /\ \E files \in Dirs(IF entry = "main" THEN MainDirPaths ELSE RepoDirPaths) :
          dir = [known |-> TRUE, files |-> files]
    /\ run = 1
    /\ prev = NoPrev
    /\ IF entry = "main"
       THEN /\ chunk_size \in 0..MaxDirChunk
            /\ batch_size \in 0..MaxDirBatch
            /\ coll_exists \in BOOLEAN
            /\ coll_size = IF coll_exists THEN KnowledgeVectorSize ELSE 0
            /\ index = IF coll_exists THEN { StalePoint } ELSE {}
            /\ pc = "delete"
       ELSE /\ chunk_size = 0
            /\ batch_size = 0
            /\ coll_exists = TRUE
            /\ coll_size = DocumentsVectorSize
            /\ index = {}
            /\ pc = "repo_glob"
    /\ backend = BackendDelta
    /\ file_paths = <<>>
    /\ fi = 0
    /\ main_id = RunStartId(0)
    /\ current_id = 0
    /\ chunk_buffer = <<>>
    /\ batch_points = <<>>
    /\ result = "running"
    /\ err = "none"
    /\ files_read = <<>>
    /\ embed_calls = <<>>
    /\ built = <<>>
    /\ upsert_calls = <<>>
    /\ upsert_invocations = 0
    /\ failure = "none"
    /\ NoOthers

\* the program is started again after a run that returned Ok; the vector
\* index keeps what the first run left in it
Restart ==
    /\ pc = "done"
    /\ dir.known
    /\ run = 1
    /\ run' = 2
    /\ prev' = [built |-> built, index |-> index]
    /\ pc' = IF entry = "main" THEN "delete" ELSE "repo_glob"
    /\ file_paths' = <<>>
    /\ fi' = 0
    /\ main_id' = RunStartId(main_id)
    /\ current_id' = 0
    /\ chunk_buffer' = <<>>
    /\ batch_points' = <<>>
    /\ result' = "running"
    /\ err' = "none"
    /\ files_read' = <<>>
    /\ embed_calls' = <<>>
    /\ built' = <<>>
    /\ upsert_calls' = <<>>
    /\ upsert_invocations' = 0
    /\ failure' = "none"
    /\ UNCHANGED << entry, dir, chunk_size, batch_size, backend, coll_exists,
                    coll_size, peer, counter, lock, tool_calls,
                    index >>

NextDir ==
    \/ \E ok \in BOOLEAN : DeleteCollection(ok)
    \/ \E ok \in BOOLEAN : CreateCollection(ok)
    \/ \E n \in 0..Cardinality(MainDirPaths), ok \in BOOLEAN : Glob(n, ok)
    \/ Finish
    \/ \E ok \in BOOLEAN : ProcessFileOpen(ok)
    \/ \E content \in DirLineValues : ReadLine(content)
    \/ ReadError
    \/ \E ok \in BOOLEAN : ProcessChunkInLoop(ok)
    \/ \E ok \in BOOLEAN : FlushInLoop(ok)
    \/ ReadEof
    \/ \E ok \in BOOLEAN : ProcessChunkTail(ok)
    \/ \E ok \in BOOLEAN : FlushTail(ok)
    \/ \E ok \in BOOLEAN : RepoGlob(ok)
    \/ \E outcome \in RepoOutcomes : RepoFile(outcome)
    \/ \E ok \in BOOLEAN : RepoUpsert(ok)
    \/ Restart

SpecDir == InitDir /\ [][NextDir]_vars

(***************************************************************************)
(* The setup program (src/main.rs): initialize_db, DocumentRepository::new *)
(* and upsert_documents_from_directory, one after the other.  While pc is  *)
(* failed or done, result is what the function called last has returned;   *)
(* at exited it is what main has returned.                                 *)
(***************************************************************************)
\* NeedsCreate with a fault: the collection is created in any case
NeedsCreateAlways(listed) == TRUE

\* initialize_db: the name is not among the listed collections
NeedsCreate(listed) == ~listed

\* a point some earlier ingestion has left in the documents collection
StaleDocument == RepoPoint(1, << "a", "\n" >>, 0)

\* initialize_db: Qdrant::new and list_collections
ListCollections(ok) ==
    /\ pc = "list"
    /\ IF ok
       THEN /\ Goto(IF NeedsCreate(coll_exists) THEN "init_create" ELSE "repo_new")
            /\ UNCHANGED failure
       ELSE /\ Fail("list_collections")
            /\ failure' = "list"
    /\ UNCHANGED << config, coll_exists, coll_size, index, file_paths, locals,
                    logs >>

\* initialize_db: create_collection with size 384 and the cosine distance;
\* the index refuses a name that exists
CreateDocuments(ok) ==
    /\ pc = "init_create"
    /\ IF ok /\ ~coll_exists
       THEN /\ coll_exists' = TRUE
            /\ coll_size' = DocumentsVectorSize
            /\ index' = {}
            /\ Goto("repo_new")
            /\ UNCHANGED failure
       ELSE /\ Fail("create_collection")
            /\ failure' = "create"
            /\ UNCHANGED << coll_exists, coll_size, index >>
    /\ UNCHANGED << config, file_paths, locals, logs >>

\* DocumentRepository::new: TextEmbedding::try_new
RepoNew(ok) ==
    /\ pc = "repo_new"
    /\ IF ok
       THEN Goto("repo_glob") /\ UNCHANGED failure
       ELSE Fail("try_new") /\ failure' = "new"
    /\ UNCHANGED << config, coll_exists, coll_size, index, file_paths, locals,
                    logs >>

\* main: every arm of the matches logs and falls through to Ok(())
SetupResult(step_result) == "Ok"

\* main: the step that failed, or the ingestion that returned, is logged and
\* main returns
SetupExit ==
    /\ entry = "setup"
    /\ pc \in { "failed", "done" }
    /\ pc' = "exited"
    /\ result' = SetupResult(result)
    /\ UNCHANGED << config, coll_exists, coll_size, index, file_paths, fi,
                    main_id, err, locals, logs, failure >>

\* the documents collection before the setup program starts: absent, or
\* created earlier with either vector size
InitSetup ==
    /\ entry = "setup"
    /\ \E files \in Dirs(RepoDirPaths) : dir = [known |-> TRUE, files |-> files]
    /\ run = 1
    /\ prev = NoPrev
    /\ chunk_size = 0
    /\ batch_size = 0
    /\ backend = BackendDelta
    /\ coll_exists \in BOOLEAN
    /\ coll_size \in IF coll_exists
                     THEN { DocumentsVectorSize, KnowledgeVectorSize }
                     ELSE { 0 }
    /\ index = IF coll_exists THEN { StaleDocument } ELSE {}
    /\ pc = "list"
    /\ file_paths = <<>>
    /\ fi = 0
    /\ main_id = 0
    /\ current_id = 0
    /\ chunk_buffer = <<>>
    /\ batch_points = <<>>
    /\ result = "running"
    /\ err = "none"
    /\ files_read = <<>>
    /\ embed_calls = <<>>
    /\ built = <<>>
    /\ upsert_calls = <<>>
    /\ upsert_invocations = 0
    /\ failure = "none"
    /\ NoOthers

NextSetup ==
    \/ \E ok \in BOOLEAN : ListCollections(ok)
    \/ \E ok \in BOOLEAN : CreateDocuments(ok)
    \/ \E ok \in BOOLEAN : RepoNew(ok)
    \/ \E ok \in BOOLEAN : RepoGlob(ok)
    \/ \E outcome \in RepoOutcomes : RepoFile(outcome)
    \/ \E ok \in BOOLEAN : RepoUpsert(ok)
    \/ SetupExit

SpecSetup == InitSetup /\ [][NextSetup]_vars

(***************************************************************************)
(* Two runs of upsert_documents_from_directory at the same time, over the  *)
(* same directory and against the same collection.  The first run is the   *)
(* run of the repository actions; the locals of the second run are the     *)
(* fields of peer: its position, its paths, its place in the loop, its     *)
(* points_to_upsert and its upsert calls.  Each upsert call is recorded    *)
(* with the index it met; began is where the first run was when the second *)
(* started.  The vector index applies one upsert call at a time.           *)
(***************************************************************************)
\* the variables neither run of the repository writes
run_config == << entry, dir, run, prev, chunk_size, batch_size, backend >>

counter_server == << counter, lock, tool_calls >>

\* a point an earlier run left in the collection for the first matched path
StaleMatched == RepoPoint(4, << "a", "\n" >>, 0)

\* the nonce of the second run
PeerRun == 2

InitConcurrent ==
    /\ entry = "repository"
    /\ \E files \in Dirs(RepoDirPaths) : dir = [known |-> TRUE, files |-> files]
    /\ run = 1
    /\ index \in { {}, { StaleMatched } }
    /\ prev = [built |-> <<>>, index |-> index]
    /\ chunk_size = 0
    /\ batch_size = 0
    /\ backend = BackendDelta
    /\ coll_exists = TRUE
    /\ coll_size = DocumentsVectorSize
    /\ pc = "repo_glob"
    /\ file_paths = <<>>
    /\ fi = 0
    /\ main_id = 0
    /\ current_id = 0
    /\ chunk_buffer = <<>>
    /\ batch_points = <<>>
    /\ result = "running"
    /\ err = "none"
    /\ files_read = <<>>
    /\ embed_calls = <<>>
    /\ built = <<>>
    /\ upsert_calls = <<>>
    /\ upsert_invocations = 0
    /\ failure = "none"
    /\ peer = [pc |-> "repo_glob", began |-> "no", file_paths |-> <<>>,
               fi |-> 0, points |-> <<>>, calls |-> <<>>]
    /\ counter = 0
    /\ lock = "free"
    /\ tool_calls = <<>>

\* the second run: glob, and the return when nothing matches
PeerGlob(ok) ==
    /\ peer.pc = "repo_glob"
    /\ LET paths == RepoDiscover(DOMAIN dir.files)
       IN  peer' = [peer EXCEPT
                      !.began = pc,
                      !.file_paths = IF ok THEN paths ELSE <<>>,
                      !.pc = IF ~ok THEN "failed"
                             ELSE IF paths = <<>> THEN "done" ELSE "repo_loop"]
    /\ UNCHANGED << run_config, counter_server, coll_exists, coll_size, index,
                    pc, file_paths, fi, main_id, result, err, locals, logs,
                    failure >>

\* the second run: one turn of the loop over the paths
PeerFile(ok) ==
    /\ peer.pc = "repo_loop"
    /\ peer.fi < Len(peer.file_paths)
    /\ LET path == peer.file_paths[peer.fi + 1]
           content == ReadToString(dir.files[path])
       IN  peer' = IF ~ok
                   THEN [peer EXCEPT !.pc = "failed"]
                   ELSE IF RepoSkips(content)
                   THEN [peer EXCEPT !.fi = @ + 1]
                   ELSE [peer EXCEPT
                           !.fi = @ + 1,
                           !.points = RepoPush(@, RepoPoint(path, content, PeerRun))]
    /\ UNCHANGED << run_config, counter_server, coll_exists, coll_size, index,
                    pc, file_paths, fi, main_id, result, err, locals, logs,
                    failure >>

\* the second run: the upsert after the loop
PeerUpsert(ok) ==
    /\ peer.pc = "repo_loop"
    /\ RepoWhenToUpsert(peer.fi, Len(peer.file_paths))
    /\ IF peer.points # <<>>
       THEN /\ peer' = [peer EXCEPT
                          !.calls = Append(@, [points |-> peer.points, ok |-> ok,
                                               met |-> index]),
                          !.pc = IF ok THEN "done" ELSE "failed"]
            /\ index' = IF ok THEN UpsertPoints(index, peer.points) ELSE index
       ELSE /\ peer' = [peer EXCEPT !.pc = "done"]
            /\ UNCHANGED index
    /\ UNCHANGED << run_config, counter_server, coll_exists, coll_size,
                    pc, file_paths, fi, main_id, result, err, locals, logs,
                    failure >>

NextConcurrent ==
    \/ \E ok \in BOOLEAN : RepoGlob(ok)
    \/ \E outcome \in RepoOutcomes : RepoFile(outcome)
    \/ \E ok \in BOOLEAN : RepoUpsert(ok)
    \/ \E ok \in BOOLEAN : PeerGlob(ok)
    \/ \E ok \in BOOLEAN : PeerFile(ok)
    \/ \E ok \in BOOLEAN : PeerUpsert(ok)

SpecConcurrent == InitConcurrent /\ [][NextConcurrent]_vars

(***************************************************************************)
(* The counter server (vectorium-counter/src/main.rs).  One Counter is     *)
(* served; every tool call is handled by a task of its own, so the calls   *)
(* of tool_calls advance independently.  counter is the i32 behind the     *)
(* tokio Mutex and lock its state.  A call is a record: its tool, its      *)
(* arguments a and b (for sum), its position pc, the value it loaded       *)
(* (tmp), the value it stored (wrote) and the text it returned (reply).    *)
(*                                                                         *)
(* A 32-bit integer is written as two halves, hi * 2^16 + lo with          *)
(* 0 <= lo < 2^16; an i32 has -2^15 <= hi < 2^15, and a sum of two i32     *)
(* needs one bit more.                                                     *)
(***************************************************************************)
Half == 65536

\* the i32 of a small integer
I32(n) == IF n >= 0 THEN [hi |-> 0, lo |-> n] ELSE [hi |-> 0 - 1, lo |-> Half + n]

I32Min == [hi |-> 0 - (Half \div 2), lo |-> 0]

I32Max == [hi |-> (Half \div 2) - 1, lo |-> Half - 1]

\* the sum of two integers, as an integer
Plus(x, y) ==
    LET l == x.lo + y.lo
    IN  [hi |-> x.hi + y.hi + (l \div Half), lo |-> l % Half]

InI32(z) == z.hi >= I32Min.hi /\ z.hi <= I32Max.hi

\* the 32 low bits, read as an i32
WrapI32(z) == [hi |-> ((z.hi + (Half \div 2)) % Half) - (Half \div 2), lo |-> z.lo]

\* minus a negative integer
Negated(z) ==
    IF z.lo = 0 THEN [hi |-> 0 - z.hi, lo |-> 0]
    ELSE [hi |-> (0 - z.hi) - 1, lo |-> Half - z.lo]

\* quotient and remainder by ten of a non-negative integer
DivTen(m) ==
    LET t == (m.hi % 10) * Half + m.lo
    IN  [q |-> [hi |-> m.hi \div 10, lo |-> t \div 10], r |-> t % 10]

DigitChars == << "0", "1", "2", "3", "4", "5", "6", "7", "8", "9" >>

RECURSIVE Digits(_)
Digits(m) ==
    IF m.hi = 0 /\ m.lo < 10 THEN << DigitChars[m.lo + 1] >>
    ELSE Digits(DivTen(m).q) \o << DigitChars[DivTen(m).r + 1] >>

\* i32::to_string: the decimal form, with a minus sign when negative
to_string(z) == IF z.hi < 0 THEN << "-" >> \o Digits(Negated(z)) ELSE Digits(z)

\* a + b on i32, then to_string: when the sum does not fit, the addition
\* panics in a build with overflow checks and wraps in a build without
SumOutcomes(a, b) ==
    IF InI32(Plus(a, b))
    THEN { [panics |-> FALSE, text |-> to_string(Plus(a, b))] }
    ELSE { [panics |-> TRUE, text |-> <<>>],
           [panics |-> FALSE, text |-> to_string(WrapI32(Plus(a, b)))] }

\* CanLock with a fault: the lock is given whoever holds it
CanLockAlways(holder) == TRUE

\* Mutex::lock().await completes when nobody holds the lock
CanLock(holder) == holder = "free"

\* the tools, in the order of the source
Tools == << "increment", "decrement", "get_value", "say_hello", "echo", "sum" >>

ToolIndex(tool) == CHOOSE i \in 1..Len(Tools) : Tools[i] = tool

\* the arguments of the sum calls sent to the served counter
ServedSumArgs == { << I32(1), I32(1) >>, << I32Max, I32(1) >> }

NewCall(tool, a, b) ==
    [tool |-> tool, a |-> a, b |-> b, pc |-> "start",
     tmp |-> 0, wrote |-> 0, reply |-> <<>>]

CallValues ==
    { NewCall(Tools[i], I32(0), I32(0)) : i \in 1..5 }
      \cup { NewCall("sum", args[1], args[2]) : args \in ServedSumArgs }

\* the calls in flight: up to MaxToolCalls of them, listed tool by tool
CallLists ==
    UNION { { cs \in [1..n -> CallValues] :
                \A i \in 1..(n - 1) :
                    ToolIndex(cs[i].tool) <= ToolIndex(cs[i + 1].tool) } :
              n \in 0..MaxToolCalls }

\* what the counter server leaves alone
ingestion ==
    << run_config, peer, coll_exists, coll_size, index, pc, file_paths, fi,
       main_id, result, err, locals, logs, failure >>

InitServer(calls) ==
    /\ entry = "counter"
    /\ dir = NoDir
    /\ run = 1
    /\ prev = NoPrev
    /\ chunk_size = 0
    /\ batch_size = 0
    /\ backend = BackendDelta
    /\ coll_exists = FALSE
    /\ coll_size = 0
    /\ index = {}
    /\ pc = "serving"
    /\ file_paths = <<>>
    /\ fi = 0
    /\ main_id = 0
    /\ current_id = 0
    /\ chunk_buffer = <<>>
    /\ batch_points = <<>>
    /\ result = "running"
    /\ err = "none"
    /\ files_read = <<>>
    /\ embed_calls = <<>>
    /\ built = <<>>
    /\ upsert_calls = <<>>
    /\ upsert_invocations = 0
    /\ failure = "none"
    /\ peer = NoPeer
    /\ counter = 0
    /\ lock = "free"
    /\ tool_calls \in calls

InitCounter == InitServer(CallLists)

\* self.counter.lock().await of increment, decrement and get_value
Lock(k) ==
    /\ tool_calls[k].tool \in { "increment", "decrement", "get_value" }
    /\ tool_calls[k].pc = "start"
    /\ CanLock(lock)
    /\ lock' = "held"
    /\ tool_calls' = [tool_calls EXCEPT ![k].pc = "locked"]
    /\ UNCHANGED << ingestion, counter >>

\* *counter += 1 and *counter -= 1: the value is loaded ...
Load(k) ==
    /\ tool_calls[k].tool \in { "increment", "decrement" }
    /\ tool_calls[k].pc = "locked"
    /\ tool_calls' = [tool_calls EXCEPT ![k].pc = "loaded", ![k].tmp = counter]
    /\ UNCHANGED << ingestion, counter, lock >>

\* ... and the new value is stored
Store(k) ==
    /\ tool_calls[k].pc = "loaded"
    /\ LET new == IF tool_calls[k].tool = "increment"
                  THEN tool_calls[k].tmp + 1 ELSE tool_calls[k].tmp - 1
       IN  /\ counter' = new
           /\ tool_calls' = [tool_calls EXCEPT ![k].pc = "stored", ![k].wrote = new]
    /\ UNCHANGED << ingestion, lock >>

\* counter.to_string() is returned and the guard is dropped
Reply(k) ==
    /\ \/ tool_calls[k].pc = "stored"
       \/ tool_calls[k].tool = "get_value" /\ tool_calls[k].pc = "locked"
    /\ tool_calls' = [tool_calls EXCEPT ![k].pc = "returned",
                                        ![k].reply = to_string(I32(counter))]
    /\ lock' = "free"
    /\ UNCHANGED << ingestion, counter >>

\* say_hello
SayHello(k) ==
    /\ tool_calls[k].tool = "say_hello"
    /\ tool_calls[k].pc = "start"
    /\ tool_calls' = [tool_calls EXCEPT ![k].pc = "returned",
                                        ![k].reply = << "h", "e", "l", "l", "o" >>]
    /\ UNCHANGED << ingestion, counter, lock >>

\* echo of the empty object
Echo(k) ==
    /\ tool_calls[k].tool = "echo"
    /\ tool_calls[k].pc = "start"
    /\ tool_calls' = [tool_calls EXCEPT ![k].pc = "returned",
                                        ![k].reply = << "{", "}" >>]
    /\ UNCHANGED << ingestion, counter, lock >>

\* sum
Sum(k) ==
    /\ tool_calls[k].tool = "sum"
    /\ tool_calls[k].pc = "start"
    /\ \E outcome \in SumOutcomes(tool_calls[k].a, tool_calls[k].b) :
          tool_calls' = [tool_calls EXCEPT
                           ![k].pc = IF outcome.panics THEN "panicked" ELSE "returned",
                           ![k].reply = outcome.text]
    /\ UNCHANGED << ingestion, counter, lock >>

NextCounter ==
    \E k \in 1..Len(tool_calls) :
        \/ Lock(k)
        \/ Load(k)
        \/ Store(k)
        \/ Reply(k)
        \/ SayHello(k)
        \/ Echo(k)
        \/ Sum(k)

SpecCounter == InitCounter /\ [][NextCounter]_vars

(***************************************************************************)
(* sum alone: one call, its two numbers drawn from the 32-bit signed       *)
(* integers at and around the ends of the range.                           *)
(***************************************************************************)
SumInputs ==
    { I32Min, Plus(I32Min, I32(1)), I32(0 - 2), I32(0 - 1), I32(0), I32(1),
      I32(2), I32(10), Plus(I32Max, I32(0 - 1)), I32Max }

InitSum ==
    InitServer({ << NewCall("sum", a, b) >> : a \in SumInputs, b \in SumInputs })

NextSum == \E k \in 1..Len(tool_calls) : Sum(k)

SpecSum == InitSum /\ [][NextSum]_vars

(***************************************************************************)
(* The chunked run over a directory that holds the single file a.txt, in a *)
(* fresh index.                                                            *)
(***************************************************************************)
ExampleFiles == UNION { [1..n -> LineValues] : n \in 0..MaxExampleLines }

InitExample ==
    /\ entry = "main"
    /\ \E lines \in ExampleFiles :
          dir = [known |-> TRUE, files |-> [p \in { 1 } |-> lines]]
    /\ run = 1
    /\ prev = NoPrev
    /\ chunk_size \in 0..MaxChunk
    /\ batch_size \in 0..MaxExampleBatch
    /\ backend = BackendDelta
    /\ coll_exists = FALSE
    /\ coll_size = 0
    /\ index = {}
    /\ pc = "delete"
    /\ file_paths = <<>>
    /\ fi = 0
    /\ main_id = RunStartId(0)
    /\ current_id = 0
    /\ chunk_buffer = <<>>
    /\ batch_points = <<>>
    /\ result = "running"
    /\ err = "none"
    /\ files_read = <<>>
    /\ embed_calls = <<>>
    /\ built = <<>>
    /\ upsert_calls = <<>>
    /\ upsert_invocations = 0
    /\ failure = "none"
    /\ NoOthers

SpecExample == InitExample /\ [][Next]_vars

(***************************************************************************)
(* upsert_batch exercised alone: a caller holds a buffer of points and     *)
(* calls upsert_batch on it again and again, whatever the index answers.   *)
(***************************************************************************)
BufferPoints ==
    { ProcessChunk(<<t>>, id, Title(1), GetEmbedding(<<t>>, 0)).points[1] :
        id \in 0..MaxBuf, t \in { <<"a">> } }

BufferValues ==
    UNION { [1..n -> BufferPoints] : n \in 0..MaxBuf }

InitUpsert ==
    /\ entry = "upsert_batch"
    /\ dir = NoDir
    /\ run = 1
    /\ prev = NoPrev
    /\ chunk_size = 1
    /\ batch_size = 1
    /\ backend = 0
    /\ coll_exists = TRUE
    /\ coll_size = KnowledgeVectorSize
    /\ index \in { {}, { StalePoint } }
    /\ pc = "upsert_batch"
    /\ file_paths = <<>>
    /\ fi = 0
    /\ main_id = 0
    /\ current_id = 0
    /\ chunk_buffer = <<>>
    /\ batch_points \in BufferValues
    /\ result = "running"
    /\ err = "none"
    /\ files_read = <<>>
    /\ embed_calls = <<>>
    /\ built = <<>>
    /\ upsert_calls = <<>>
    /\ upsert_invocations = 0
    /\ failure = "none"
    /\ NoOthers

CallUpsertBatch(ok) ==
    /\ pc = "upsert_batch"
    /\ upsert_invocations < MaxCalls
    /\ UpsertBatch(ok)
    /\ result' = IF UpsertBatchReturnsOk(batch_points, ok) THEN "Ok" ELSE "Err"
    /\ err' = IF UpsertBatchReturnsOk(batch_points, ok)
              THEN "none" ELSE "Failed to upsert points"
    /\ failure' = IF SendsRequest(batch_points) /\ ~ok THEN "upsert" ELSE failure
    /\ UNCHANGED << config, coll_exists, coll_size,
                    pc, file_paths, fi, main_id,
                    current_id, chunk_buffer, files_read, embed_calls, built >>

NextUpsert == \E ok \in BOOLEAN : CallUpsertBatch(ok)

SpecUpsert == InitUpsert /\ [][NextUpsert]_vars

(***************************************************************************)
(* process_chunk alone: one call on a chunk of yielded lines, with a       *)
(* start_id and a backend that returns as many vectors as texts, or more,  *)
(* or fewer.  main_id keeps the start_id of the call, embed_calls the      *)
(* chunk, built the points of the result and current_id its total_points.  *)
(***************************************************************************)
ChunkValues ==
    UNION { [1..n -> { l \in LineValues : IsNonEmptyLine(l) }] :
              n \in 0..MaxChunkLen }

InitChunk ==
    /\ entry = "process_chunk"
    /\ dir = NoDir
    /\ run = 1
    /\ prev = NoPrev
    /\ chunk_size = 1
    /\ batch_size = 1
    /\ backend \in (0 - MaxDelta)..MaxDelta
    /\ coll_exists = TRUE
    /\ coll_size = KnowledgeVectorSize
    /\ index = {}
    /\ pc = "process_chunk"
    /\ file_paths = << 1 >>
    /\ fi = 0
    /\ current_id \in 0..MaxStartId
    /\ main_id = current_id
    /\ chunk_buffer \in ChunkValues
    /\ batch_points = <<>>
    /\ result = "running"
    /\ err = "none"
    /\ files_read = <<>>
    /\ embed_calls = <<>>
    /\ built = <<>>
    /\ upsert_calls = <<>>
    /\ upsert_invocations = 0
    /\ failure = "none"
    /\ NoOthers

\* process_chunk(chunk, start_id, title): Ok(ProcessingResult), or the panic
\* of get_embedding
CallProcessChunk(ok) ==
    /\ pc = "process_chunk"
    /\ IF ok
       THEN /\ ChunkProcessed
            /\ pc' = "returned"
            /\ result' = "Ok"
            /\ UNCHANGED << chunk_buffer, failure, err, fi, main_id >>
       ELSE EmbeddingPanics
    /\ UNCHANGED << config, coll_exists, coll_size,
                    index, file_paths, files_read,
                    upsert_calls, upsert_invocations >>

NextChunk == \E ok \in BOOLEAN : CallProcessChunk(ok)

SpecChunk == InitChunk /\ [][NextChunk]_vars

(***************************************************************************)
(* Vocabulary of the properties, stated on the history of the run and      *)
(* independently of the operators above.                                   *)
(***************************************************************************)
Max(a, b) == IF a >= b THEN a ELSE b

RECURSIVE Flatten(_)
Flatten(ss) == IF ss = <<>> THEN <<>> ELSE Head(ss) \o Flatten(Tail(ss))

\* the non-empty lines of a file, in their original order
NonEmptyLines(raw) == SelectSeq(raw, LAMBDA l : Trim(l) # <<>>)

\* the non-empty lines read in the run, each with its file: file order,
\* then line order
LinesInOrder ==
    Flatten([f \in 1..Len(files_read) |->
               LET ls == NonEmptyLines(files_read[f])
               IN  [i \in 1..Len(ls) |-> [file |-> f, text |-> ls[i]]]])

\* M: the combined number of non-empty lines
M == Len(LinesInOrder)

\* the chunks of file f handed to process_chunk so far, concatenated
ChunksOf(f) ==
    LET calls == SelectSeq(embed_calls, LAMBDA c : c.file = f)
    IN  Flatten([k \in 1..Len(calls) |-> calls[k].chunk])

\* the places (call, position) where point p was sent in a successful upsert
Committed(p) ==
    { << k, j >> \in (1..Len(upsert_calls)) \X (1..(MaxLines + 1)) :
        /\ upsert_calls[k].ok
        /\ j <= Len(upsert_calls[k].points)
        /\ upsert_calls[k].points[j] = p }

InProcessFile == pc \in { "read", "chunk", "flush", "tail_chunk", "tail_flush" }

(***************************************************************************)
(* C1: with a backend that returns one vector per input and no failing     *)
(* call, the id counter main ends with equals M, the combined number of    *)
(* non-empty lines of the files, for every chunk_size and batch_size.      *)
(***************************************************************************)
C1_FinalCounterIsM ==
    (pc = "done" /\ backend = 0) => main_id = M

C1_Witness ==
    /\ pc = "done" /\ backend = 0
    /\ Len(file_paths) = 2
    /\ NonEmptyLines(files_read[1]) # <<>>
    /\ Len(NonEmptyLines(files_read[2])) >= 2
    /\ Len(files_read[1]) > Len(NonEmptyLines(files_read[1]))
    /\ chunk_size = 2
    /\ main_id = 3

\* the ids at any moment of a run: the k-th point built has id k and the
\* counter is the number of points built; with a backend that returns a
\* vector for every line, the k-th point is the k-th non-empty line read
C2_IdsInv ==
    /\ \A k \in 1..Len(built) : built[k].id = k
    /\ current_id = Len(built)
    /\ main_id <= current_id
    /\ backend >= 0 =>
         LET lines == LinesInOrder
         IN  /\ Len(built) <= Len(lines)
             /\ \A k \in 1..Len(built) :
                  /\ built[k].text = lines[k].text
                  /\ built[k].title = lines[k].file
             /\ pc = "done" => Len(built) = Len(lines)

(***************************************************************************)
(* C2: the id counter is carried across chunks and files and never reset:  *)
(* the k-th point built in a run has id k, the counter equals the number   *)
(* of points built and never decreases; with a backend that returns a      *)
(* vector for every line the k-th point is the k-th non-empty line read    *)
(* (file order, then line order), so a completed run assigned 1..M.        *)
(***************************************************************************)
C2_CounterCarried ==
    /\ []C2_IdsInv
    /\ [][current_id' >= current_id /\ main_id' >= main_id]_vars

C2_Witness ==
    /\ pc = "done"
    /\ Len(file_paths) = 2
    /\ Len(built) = 3
    /\ built[1].title = 1
    /\ built[2].title = 2
    /\ built[3].id = 3
    /\ Len(embed_calls) = 3

(***************************************************************************)
(* C3 as claimed: every chunk handed to process_chunk holds at most        *)
(* chunk_size lines, chunk_size 0 and 1 included.                          *)
(***************************************************************************)
C3_Claimed ==
    \A k \in 1..Len(embed_calls) : Len(embed_calls[k].chunk) <= chunk_size

(***************************************************************************)
(* C3 amended: every chunk handed to process_chunk holds at least one line *)
(* and, for chunk_size >= 1, at most chunk_size lines; with chunk_size 0   *)
(* every chunk holds exactly one line.                                     *)
(***************************************************************************)
C3_ChunkBound ==
    \A k \in 1..Len(embed_calls) :
        /\ Len(embed_calls[k].chunk) >= 1
        /\ Len(embed_calls[k].chunk) <= Max(1, chunk_size)

C3_Witness ==
    /\ chunk_size = 2
    /\ Len(embed_calls) = 2
    /\ Len(embed_calls[1].chunk) = 2
    /\ Len(embed_calls[2].chunk) = 1
    /\ embed_calls[2].file = embed_calls[1].file

(***************************************************************************)
(* C4: the chunks of a file handed to process_chunk, concatenated in the   *)
(* order they are handed over, are the non-empty lines of the file in      *)
(* their original order; while the file is being read, the chunks handed   *)
(* over so far followed by the lines waiting in chunk_buffer are the       *)
(* non-empty lines read so far.                                            *)
(***************************************************************************)
C4_ChunksAreTheLines ==
    /\ \A f \in 1..fi : ChunksOf(f) = NonEmptyLines(files_read[f])
    /\ pc \in { "read", "chunk", "tail_chunk" } =>
         ChunksOf(fi + 1) \o chunk_buffer = NonEmptyLines(files_read[fi + 1])
    /\ pc \in { "flush", "tail_flush" } =>
         ChunksOf(fi + 1) = NonEmptyLines(files_read[fi + 1])

C4_Witness ==
    /\ fi = 1
    /\ chunk_size = 2
    /\ Len(files_read[1]) = 4
    /\ Len(NonEmptyLines(files_read[1])) = 3
    /\ files_read[1][2] = <<" ">>
    /\ Len(embed_calls) = 2
    /\ embed_calls[1].chunk # embed_calls[2].chunk \o embed_calls[2].chunk

(***************************************************************************)
(* C5: when a run completes successfully the batch buffer is empty and     *)
(* every point built during the run was sent in exactly one successful     *)
(* upsert call; nothing else was sent.                                     *)
(***************************************************************************)
C5_AllPointsFlushedOnce ==
    pc = "done" =>
        /\ batch_points = <<>>
        /\ \A k \in 1..Len(built) : Cardinality(Committed(built[k])) = 1
        /\ Flatten([k \in 1..Len(upsert_calls) |-> upsert_calls[k].points]) = built

C5_Witness ==
    /\ pc = "done"
    /\ Len(built) = 3
    /\ Len(upsert_calls) = 2
    /\ Len(upsert_calls[1].points) = 2
    /\ chunk_size = 1
    /\ batch_size = 2

(***************************************************************************)
(* C6 as claimed: no upsert call carries more than batch_size points.      *)
(***************************************************************************)
C6_Claimed ==
    \A k \in 1..Len(upsert_calls) : Len(upsert_calls[k].points) <= batch_size

(***************************************************************************)
(* C6 amended: batch_size counts chunks, not points: the buffer is flushed *)
(* as soon as, after a chunk, it holds batch_size * chunk_size points, so  *)
(* between two chunks it holds fewer (or none), and no upsert call carries *)
(* more than max(batch_size, 1) * max(chunk_size, 1) points.               *)
(***************************************************************************)
C6_FlushBound ==
    /\ \A k \in 1..Len(upsert_calls) :
         Len(upsert_calls[k].points) <= Max(batch_size, 1) * Max(chunk_size, 1)
    /\ pc = "read" =>
         \/ batch_points = <<>>
         \/ Len(batch_points) < batch_size * chunk_size

C6_Witness ==
    /\ batch_size = 1
    /\ chunk_size = 2
    /\ Len(upsert_calls) = 1
    /\ Len(upsert_calls[1].points) = 2
    /\ pc = "read"

\* the call after a failed upsert sends the same points; after a failed
\* last call the buffer still holds them
C7_RetrySendsSame ==
    \A k \in 1..Len(upsert_calls) :
        /\ (~upsert_calls[k].ok /\ k < Len(upsert_calls)) =>
              upsert_calls[k + 1].points = upsert_calls[k].points
        /\ (~upsert_calls[k].ok /\ k = Len(upsert_calls)) =>
              batch_points = upsert_calls[k].points

\* one call of upsert_batch: a successful upsert of the buffer empties it,
\* a failed one leaves buffer and index alone, no upsert leaves the buffer
C7_CallLeavesBuffer ==
    upsert_invocations' = upsert_invocations + 1 =>
        \/ /\ upsert_calls' = Append(upsert_calls,
                                     [points |-> batch_points, ok |-> TRUE])
           /\ batch_points' = <<>>
        \/ /\ upsert_calls' = Append(upsert_calls,
                                     [points |-> batch_points, ok |-> FALSE])
           /\ batch_points' = batch_points
           /\ index' = index
        \/ /\ upsert_calls' = upsert_calls
           /\ batch_points' = batch_points

(***************************************************************************)
(* C7: a failed upsert leaves the buffer as it was before the call; the    *)
(* next call of upsert_batch sends the same points in the same order, and  *)
(* the buffer is emptied by a successful upsert only.                      *)
(***************************************************************************)
C7_FailedUpsertKeepsBuffer ==
    /\ []C7_RetrySendsSame
    /\ [][C7_CallLeavesBuffer]_vars

C7_Witness ==
    /\ pc = "upsert_batch"
    /\ Len(upsert_calls) = 2
    /\ ~upsert_calls[1].ok
    /\ upsert_calls[2].ok
    /\ Len(upsert_calls[1].points) = 2
    /\ upsert_calls[2].points = upsert_calls[1].points
    /\ batch_points = <<>>

(***************************************************************************)
(* C8: upsert_batch on an empty buffer returns Ok, makes no call to the    *)
(* vector index and leaves the buffer empty, whatever the index would      *)
(* answer; so a second call right after a successful one sends nothing.    *)
(***************************************************************************)
C8_EmptyBufferNoCall ==
    [][(upsert_invocations' = upsert_invocations + 1 /\ batch_points = <<>>) =>
          /\ upsert_calls' = upsert_calls
          /\ index' = index
          /\ batch_points' = <<>>
          /\ result' = "Ok"]_vars

C8_Witness ==
    /\ pc = "upsert_batch"
    /\ upsert_invocations = 2
    /\ Len(upsert_calls) = 1
    /\ upsert_calls[1].ok
    /\ batch_points = <<>>
    /\ result = "Ok"

(***************************************************************************)
(* C9 as claimed: when the embedding backend fails on a chunk, the run     *)
(* ends with an error value returned to the caller.                        *)
(***************************************************************************)
C9_Claimed ==
    failure = "embed" => result = "Err"

\* a file open, a line read or an upsert has failed
C10_Fatal == failure \in { "open", "read", "upsert" }

(***************************************************************************)
(* C10: the first failure of a file open, a line read or an upsert ends    *)
(* the run with an error returned to the caller; after it no embedding     *)
(* call and no upsert call is made, no file is opened or read, and         *)
(* nothing is retried.                                                     *)
(***************************************************************************)
C10_FirstFailureEndsRun ==
    /\ [](C10_Fatal => (pc = "failed" /\ result = "Err" /\ err # "none"))
    /\ [][C10_Fatal => UNCHANGED << embed_calls, upsert_calls,
                                    upsert_invocations, files_read, fi,
                                    index, built >>]_vars

C10_Witness ==
    /\ failure = "upsert"
    /\ pc = "failed"
    /\ Len(file_paths) = 2
    /\ fi = 0
    /\ Len(upsert_calls) = 2
    /\ upsert_calls[1].ok

(***************************************************************************)
(* C19 as claimed: the text stored in a point is a non-empty trimmed       *)
(* line; it equals its own trimmed form.                                   *)
(***************************************************************************)
C19_Claimed ==
    \A k \in 1..Len(built) :
        /\ built[k].text # <<>>
        /\ built[k].text = Trim(built[k].text)

(***************************************************************************)
(* C19: every line yielded by read_non_empty_lines has a non-empty         *)
(* trimmed form and is yielded as it was read, its leading and trailing    *)
(* whitespace included; the text stored in a point is the line as read.    *)
(***************************************************************************)
C19_YieldedAsRead ==
    LET lines == LinesInOrder
    IN  /\ Len(built) <= Len(lines)
        /\ \A k \in 1..Len(built) :
              /\ Trim(built[k].text) # <<>>
              /\ built[k].text = lines[k].text
        /\ \A j \in 1..Len(chunk_buffer) : Trim(chunk_buffer[j]) # <<>>

C19_Witness ==
    /\ Len(built) = 2
    /\ built[2].text = << " ", "b" >>
    /\ built[2].text # Trim(built[2].text)
    /\ files_read[1] = << <<" ">>, <<"a">>, << " ", "b" >> >>

(***************************************************************************)
(* Vocabulary of the runs over a fixed directory.                          *)
(***************************************************************************)
\* the path of the file a point was built from
PointFile(p) == IF entry = "repository" THEN p.file_path ELSE p.title

\* the paths whose processing is over: files 1..fi of the order
FilesDone == { file_paths[f] : f \in 1..fi }

\* point p was sent in an upsert call that succeeded
Sent(p) ==
    \E k \in 1..Len(upsert_calls) :
        /\ upsert_calls[k].ok
        /\ \E j \in 1..Len(upsert_calls[k].points) : upsert_calls[k].points[j] = p

\* the run has failed while it was processing a file
FailedInFile ==
    /\ result \in { "Err", "Panic" }
    /\ fi < Len(file_paths)

PatternExts == IF entry = "main" THEN { "txt", "md" } ELSE { "{txt,md}" }

\* no file of the directory matches a pattern of the entry point
NoMatchingFiles == \A p \in DOMAIN dir.files : Ext(p) \notin PatternExts

\* file discovery is over
Discovered == pc \notin { "delete", "create", "glob", "repo_glob" } \/ result = "Ok"

(***************************************************************************)
(* C12: a run over a directory with no matching files, in which no call    *)
(* to the index or the file system fails, succeeds with zero points: it    *)
(* discovers no path, makes no embedding call and no upsert call, builds   *)
(* no point, and returns success; the final counter of the counter policy  *)
(* is 0.                                                                   *)
(***************************************************************************)
C12_EmptyDirectorySucceeds ==
    (dir.known /\ NoMatchingFiles /\ failure = "none" /\ Discovered) =>
        /\ file_paths = <<>>
        /\ pc \in { "loop", "done" }
        /\ pc = "done" => result = "Ok"
        /\ pc = "loop" => ENABLED Finish
        /\ embed_calls = <<>>
        /\ built = <<>>
        /\ upsert_calls = <<>>
        /\ upsert_invocations = 0
        /\ files_read = <<>>
        /\ entry = "main" => main_id = 0

C12_Witness ==
    /\ entry = "main"
    /\ run = 1
    /\ pc = "done"
    /\ result = "Ok"
    /\ DOMAIN dir.files = { 4 }
    /\ dir.files[4] = << << " ", "b" >> >>
    /\ main_id = 0
    /\ upsert_invocations = 0

\* the file at path is empty or holds only whitespace
BlankFile(path) ==
    \A i \in 1..Len(dir.files[path]) :
        \A j \in 1..Len(dir.files[path][i]) : dir.files[path][i][j] = " "

\* the run is at a file, and this file is blank
AtBlankFile ==
    /\ pc \in { "read", "chunk", "flush", "tail_chunk", "tail_flush", "repo_loop" }
    /\ fi < Len(file_paths)
    /\ BlankFile(file_paths[fi + 1])

(***************************************************************************)
(* C13: a file that is empty or holds only whitespace contributes zero     *)
(* points and does not abort the run.  No embedding call is made for it    *)
(* and no point is built from it, so no upsert carries anything of it;     *)
(* while the chunked run is at it, its counter and its buffers are as the  *)
(* file before left them; unless reading it fails, the run leaves it by    *)
(* going on to the next path with the counter unchanged; and a run that    *)
(* returns Ok has read every discovered file, those after it included.     *)
(***************************************************************************)
C13_BlankFileSkipped ==
    /\ [](dir.known =>
            /\ \A k \in 1..Len(embed_calls) :
                   ~BlankFile(file_paths[embed_calls[k].file])
            /\ \A k \in 1..Len(built) : ~BlankFile(PointFile(built[k]))
            /\ \A k \in 1..Len(upsert_calls) :
                   \A j \in 1..Len(upsert_calls[k].points) :
                       ~BlankFile(PointFile(upsert_calls[k].points[j]))
            /\ (entry = "main" /\ AtBlankFile) =>
                   /\ pc = "read"
                   /\ current_id = main_id
                   /\ chunk_buffer = <<>>
                   /\ batch_points = <<>>
            /\ (pc = "done" /\ file_paths # <<>>) =>
                   /\ fi = Len(file_paths)
                   /\ Len(files_read) = Len(file_paths)
                   /\ \A f \in 1..Len(file_paths) :
                          files_read[f] = dir.files[file_paths[f]])
    /\ [][(dir.known /\ AtBlankFile) =>
            /\ embed_calls' = embed_calls
            /\ upsert_calls' = upsert_calls
            /\ built' = built
            /\ index' = index
            /\ failure' = failure =>
                  /\ result' = result
                  /\ main_id' = main_id
                  /\ \/ pc' = pc /\ fi' = fi
                     \/ pc' \in { "loop", "repo_loop" } /\ fi' = fi + 1]_vars

C13_Witness ==
    /\ entry = "repository"
    /\ pc = "done"
    /\ result = "Ok"
    /\ file_paths = << 4, 5 >>
    /\ dir.files[4] = << << " " >> >>
    /\ Len(built) = 1
    /\ PointFile(built[1]) = 5
    /\ Len(upsert_calls) = 1

\* the ids of the points of a sequence, of a set
IdsOf(points) == { points[k].id : k \in 1..Len(points) }
IdsIn(points) == { p.id : p \in points }

(***************************************************************************)
(* C14: with the hash-based id policy of upsert_documents_from_directory   *)
(* re-ingestion is idempotent.  The id of a point depends only on the path *)
(* of its file: in one run or in two, points of the same path have the     *)
(* same id and points of different paths have different ids.  When a       *)
(* second run over the unchanged directory has returned Ok, it has built   *)
(* the same set of ids as the first, and the index holds the same ids and  *)
(* as many points as after the first run.                                  *)
(***************************************************************************)
C14_HashPolicyIdempotent ==
    entry = "repository" =>
        /\ \A p \in SeqToSet(built) \cup SeqToSet(prev.built) :
              \A q \in SeqToSet(built) \cup SeqToSet(prev.built) :
                  (p.id = q.id) <=> (p.file_path = q.file_path)
        /\ (run = 2 /\ pc = "done") =>
              /\ IdsOf(built) = IdsOf(prev.built)
              /\ IdsIn(index) = IdsIn(prev.index)
              /\ Cardinality(index) = Cardinality(prev.index)

C14_Witness ==
    /\ entry = "repository"
    /\ run = 2
    /\ pc = "done"
    /\ Len(built) = 2
    /\ Len(upsert_calls) = 1
    /\ Cardinality(prev.index) = 2
    /\ Cardinality(index) = 2

(***************************************************************************)
(* C15 as claimed: with the counter policy no id assigned in the second    *)
(* run over the same directory equals an id assigned in the first run.     *)
(***************************************************************************)
C15_Claimed ==
    (entry = "main" /\ run = 2) => IdsOf(built) \cap IdsOf(prev.built) = {}

\* the points an upsert step sends
NewlySent == upsert_calls'[Len(upsert_calls')].points

(***************************************************************************)
(* C15: with the counter policy the second run over the same directory     *)
(* starts its counter at 0 again and assigns the ids of the first run      *)
(* once more: every id it assigns was assigned in the first run, and when  *)
(* it has returned Ok the two sets of ids are equal.  It overwrites no     *)
(* point, but only because initialize_collection has emptied the           *)
(* collection: past initialize_collection the index holds nothing until    *)
(* the first upsert, and no upsert carries an id the index holds.          *)
(***************************************************************************)
C15_SecondRunRepeatsIds ==
    /\ []((entry = "main" /\ run = 2) =>
            /\ IdsOf(built) \subseteq IdsOf(prev.built)
            /\ IdsOf(built) = 1..Len(built)
            /\ pc = "done" => IdsOf(built) = IdsOf(prev.built)
            /\ (pc \notin { "delete", "create", "failed" } /\ upsert_calls = <<>>) =>
                  index = {})
    /\ [][(entry = "main" /\ Len(upsert_calls') > Len(upsert_calls)) =>
            IdsOf(NewlySent) \cap IdsIn(index) = {}]_vars

C15_Witness ==
    /\ entry = "main"
    /\ run = 2
    /\ pc = "done"
    /\ Len(built) = 2
    /\ IdsOf(built) = { 1, 2 }
    /\ IdsOf(prev.built) = { 1, 2 }
    /\ Cardinality(index) = 2
    /\ index = prev.index

\* file discovery of main has returned its list
GlobDone ==
    \/ pc \in { "loop", "read", "chunk", "flush", "tail_chunk", "tail_flush", "done" }
    \/ pc \in { "failed", "panicked" } /\ failure \notin { "create", "glob" }

\* path p comes before path q: a txt before an md, and within one
\* extension in alphabetical order
ComesBefore(p, q) ==
    \/ Ext(p) = "txt" /\ Ext(q) = "md"
    \/ Ext(p) = Ext(q) /\ Stem(p) < Stem(q)

\* the position of a path in the discovered list
PositionOf(path) == CHOOSE f \in 1..Len(file_paths) : file_paths[f] = path

(***************************************************************************)
(* C16: the counter-policy run is deterministic over an unchanged file     *)
(* set.  The list of files is all data/*.txt matches, then all data/*.md   *)
(* matches, each group in alphabetical order, and holds every such file    *)
(* once; the files are read, and their points built, in this order; and a  *)
(* second run over the same files with the same configuration builds, one  *)
(* after the other, the points the first run built: the same id for the    *)
(* same line of the same file.                                             *)
(***************************************************************************)
C16_DeterministicOrder ==
    (entry = "main" /\ dir.known /\ GlobDone) =>
        /\ SeqToSet(file_paths) =
              { p \in DOMAIN dir.files : Ext(p) \in { "txt", "md" } }
        /\ \A i \in 1..Len(file_paths) : \A j \in 1..Len(file_paths) :
              i < j => ComesBefore(file_paths[i], file_paths[j])
        /\ \A f \in 1..Len(files_read) :
              /\ Len(files_read[f]) <= Len(dir.files[file_paths[f]])
              /\ files_read[f] =
                    SubSeq(dir.files[file_paths[f]], 1, Len(files_read[f]))
        /\ \A k \in 1..Len(built) : \A l \in 1..Len(built) :
              k < l => PositionOf(built[k].title) <= PositionOf(built[l].title)
        /\ run = 2 =>
              /\ Len(built) <= Len(prev.built)
              /\ \A k \in 1..Len(built) : built[k] = prev.built[k]
              /\ pc = "done" => built = prev.built

C16_Witness ==
    /\ entry = "main"
    /\ run = 2
    /\ pc = "done"
    /\ DOMAIN dir.files = { 1, 2, 3, 4 }
    /\ file_paths = << 1, 2, 3 >>
    /\ Len(built) = 2
    /\ built[1].title = 2
    /\ built[2].title = 3
    /\ built = prev.built

(***************************************************************************)
(* C17 as claimed: once upsert_documents_from_directory has collected its  *)
(* paths, every file of the directory whose extension is txt or md is in   *)
(* the list of paths it processes.                                         *)
(***************************************************************************)
C17_Claimed ==
    (entry = "repository" /\ (pc \in { "repo_loop", "done" } \/ failure \notin { "none", "glob" })) =>
        \A p \in DOMAIN dir.files :
            Ext(p) \in { "txt", "md" } => p \in SeqToSet(file_paths)

\* the discovered paths whose file is not blank, in the order of the list
NonBlankPaths == SelectSeq(file_paths, LAMBDA p : ~BlankFile(p))

(***************************************************************************)
(* C18: when no read, no embedding and no index call fails,                *)
(* upsert_documents_from_directory does not end in an error, and when it   *)
(* has returned it has returned Ok: if every processed file is blank it    *)
(* has issued no upsert call, and otherwise exactly one, with the wait     *)
(* flag set, that carries exactly one point per non-blank processed file,  *)
(* in the order of the paths, each with the content of its file.           *)
(***************************************************************************)
C18_OneUpsertOnePointPerFile ==
    (entry = "repository" /\ failure = "none") =>
        /\ pc \in { "repo_glob", "repo_loop", "done" }
        /\ pc # "done" => upsert_calls = <<>>
        /\ pc = "done" =>
              /\ result = "Ok"
              /\ NonBlankPaths = <<>> => upsert_calls = <<>>
              /\ NonBlankPaths # <<>> =>
                    /\ Len(upsert_calls) = 1
                    /\ upsert_calls[1].ok
                    /\ upsert_calls[1].wait
                    /\ Len(upsert_calls[1].points) = Len(NonBlankPaths)
                    /\ \A k \in 1..Len(NonBlankPaths) :
                          /\ upsert_calls[1].points[k].file_path = NonBlankPaths[k]
                          /\ upsert_calls[1].points[k].content =
                                ReadToString(dir.files[NonBlankPaths[k]])

C18_Witness ==
    /\ entry = "repository"
    /\ run = 1
    /\ failure = "none"
    /\ pc = "done"
    /\ DOMAIN dir.files = { 1, 4, 5 }
    /\ file_paths = << 4, 5 >>
    /\ Len(upsert_calls) = 1
    /\ Len(upsert_calls[1].points) = 2
    /\ upsert_calls[1].wait

\* every processed file is blank, and there is one
C18_WitnessAllBlank ==
    /\ entry = "repository"
    /\ failure = "none"
    /\ pc = "done"
    /\ file_paths = << 4, 5 >>
    /\ NonBlankPaths = <<>>
    /\ upsert_calls = <<>>

\* the non-empty lines of the single file, and their number L
ExampleLines == NonEmptyLines(dir.files[1])
L == Len(ExampleLines)

\* ceil(a / b) for b >= 1
Ceil(a, b) == (a + b - 1) \div b

\* the run over the single file has returned Ok
ExampleDone ==
    /\ pc = "done"
    /\ result = "Ok"
    /\ file_paths = << 1 >>

(***************************************************************************)
(* C20 as claimed: for a single file with L non-empty lines, L below       *)
(* batch_size, the run embeds ceil(L / chunk_size) chunks, builds L points *)
(* with ids 1..L, makes exactly one upsert call that carries all L points, *)
(* and returns L.                                                          *)
(***************************************************************************)
C20_Claimed ==
    (ExampleDone /\ L < batch_size) =>
        /\ chunk_size >= 1 => Len(embed_calls) = Ceil(L, chunk_size)
        /\ Len(built) = L
        /\ \A k \in 1..L : built[k].id = k
        /\ Len(upsert_calls) = 1
        /\ upsert_calls[1].points = built
        /\ main_id = L

(***************************************************************************)
(* C20: end-to-end with the counter policy, for a single file with L       *)
(* non-empty lines, 1 <= L < batch_size, and chunk_size >= 1: the run      *)
(* embeds ceil(L / chunk_size) chunks, which are the lines cut every       *)
(* chunk_size lines, builds L points with ids 1..L from the lines in       *)
(* order, makes exactly one upsert call, which succeeds and carries all L  *)
(* points, and returns L.                                                  *)
(***************************************************************************)
C20_EndToEnd ==
    (ExampleDone /\ 1 <= L /\ L < batch_size /\ chunk_size >= 1) =>
        /\ Len(embed_calls) = Ceil(L, chunk_size)
        /\ \A c \in 1..Len(embed_calls) :
              embed_calls[c].chunk =
                  SubSeq(ExampleLines, (c - 1) * chunk_size + 1,
                         Min(c * chunk_size, L))
        /\ Len(built) = L
        /\ \A k \in 1..L : built[k].id = k /\ built[k].text = ExampleLines[k]
        /\ Len(upsert_calls) = 1
        /\ upsert_calls[1].ok
        /\ upsert_calls[1].points = built
        /\ index = SeqToSet(built)
        /\ main_id = L

C20_Witness ==
    /\ ExampleDone
    /\ chunk_size = 2
    /\ batch_size = 4
    /\ dir.files[1] = << << "a" >>, << " ", "b" >>, << "a" >> >>
    /\ Len(embed_calls) = 2
    /\ embed_calls[1].chunk = << << "a" >>, << " ", "b" >> >>
    /\ embed_calls[2].chunk = << << "a" >> >>
    /\ IdsOf(built) = { 1, 2, 3 }
    /\ Len(upsert_calls) = 1
    /\ Len(upsert_calls[1].points) = 3
    /\ main_id = 3

\* the embedding model of the entry point that runs
ModelOf(e) == IF e = "main" THEN MainModel ELSE RepoModel

\* the collection is there and the run itself has created it
CreatedByMain ==
    /\ entry = "main"
    /\ coll_exists
    /\ pc \notin { "delete", "create" }
    /\ failure # "create"

(***************************************************************************)
(* C21 as claimed: the vector size of the collection an entry point has    *)
(* created equals the output dimensionality of the embedding model it      *)
(* uses; here for the knowledge collection of initialize_collection and    *)
(* the model of get_embedding.                                             *)
(***************************************************************************)
C21_Claimed ==
    CreatedByMain => coll_size = EmbeddingDim(ModelOf(entry))

\* a step of the setup program has failed with an error
SetupStepFailed ==
    failure \in { "list", "create", "new", "glob", "read", "metadata", "embed",
                  "upsert" }

(***************************************************************************)
(* C22 as claimed: whenever initialize_db, DocumentRepository::new or      *)
(* upsert_documents_from_directory has failed, the setup program ends      *)
(* with an error result, not with a success result.                        *)
(***************************************************************************)
C22_Claimed ==
    (entry = "setup" /\ pc = "exited" /\ SetupStepFailed) => result = "Err"

\* initialize_db has returned Ok
InitializeDbOk ==
    /\ entry = "setup"
    /\ pc \notin { "list", "init_create" }
    /\ failure \notin { "list", "create" }

(***************************************************************************)
(* C28: initialize_db creates the documents collection if and only if the  *)
(* list the index returns does not hold its name.  It goes on to           *)
(* create_collection exactly when the collection is absent; a collection   *)
(* that exists is never deleted or created again, and keeps its vector     *)
(* size, and initialize_db leaves its points alone; whenever initialize_db *)
(* has returned Ok the collection exists, so every upsert of the setup     *)
(* program is made after the collection exists.                            *)
(***************************************************************************)
C28_CreateIfAbsent ==
    /\ [](entry = "setup" =>
            /\ pc = "init_create" => ~coll_exists
            /\ InitializeDbOk => coll_exists
            /\ upsert_calls # <<>> => (InitializeDbOk /\ coll_exists))
    /\ [][(entry = "setup" /\ pc = "list" /\ failure' = "none") =>
            (pc' = "init_create" <=> ~coll_exists)]_vars
    /\ [][(entry = "setup" /\ pc = "init_create" /\ failure' = "none") =>
            (coll_exists' /\ coll_size' = DocumentsVectorSize)]_vars
    /\ [][(entry = "setup" /\ coll_exists) =>
            /\ coll_exists'
            /\ coll_size' = coll_size
            /\ pc \in { "list", "init_create", "repo_new" } => index' = index]_vars

C28_Witness ==
    /\ entry = "setup"
    /\ pc = "exited"
    /\ failure = "none"
    /\ coll_size = DocumentsVectorSize
    /\ Len(upsert_calls) = 1
    /\ upsert_calls[1].ok
    /\ Cardinality(index) = 1
    /\ StaleDocument \notin index

\* the collection was there before: it is listed and nothing is created
C28_WitnessExisting ==
    /\ entry = "setup"
    /\ pc = "repo_new"
    /\ coll_size = KnowledgeVectorSize
    /\ index = { StaleDocument }

(***************************************************************************)
(* C23 as claimed: when the metadata of a file is malformed (a name or     *)
(* path that is not valid UTF-8, a last-modified time before the Unix      *)
(* epoch), building its point returns an error value to the caller: the    *)
(* run does not panic.                                                     *)
(***************************************************************************)
C23_Claimed ==
    failure = "unwrap" => (result = "Err" /\ pc = "failed")

(***************************************************************************)
(* process_chunk alone: the chunk, the start_id and the vectors of a call  *)
(* that has returned.                                                      *)
(***************************************************************************)
ChunkReturned == entry = "process_chunk" /\ pc = "returned"

ChunkLines == embed_calls[1].chunk

ChunkVectors == GetEmbedding(ChunkLines, backend)

\* the i-th point is the i-th line with the i-th vector and id start_id + i
PointsInInputOrder ==
    \A i \in 1..Len(built) :
        /\ built[i].id = main_id + (i - 1) + 1
        /\ built[i].text = ChunkLines[i]
        /\ built[i].vector = ChunkVectors[i]

(***************************************************************************)
(* C24 as claimed: process_chunk builds exactly one point per line of the  *)
(* chunk, in input order, and returns the counter start_id plus the number *)
(* of lines, whatever number of vectors the backend returns.               *)
(***************************************************************************)
C24_Claimed ==
    ChunkReturned =>
        /\ Len(built) = Len(ChunkLines)
        /\ PointsInInputOrder
        /\ current_id = main_id + Len(ChunkLines)

(***************************************************************************)
(* C24: process_chunk builds one point per pair of a line and a vector:    *)
(* as many points as the shorter of the chunk and the returned vectors, in *)
(* input order, the i-th (0-based) with id start_id + i + 1, the i-th line *)
(* and the i-th vector; the returned counter is start_id plus the number   *)
(* of points built.  With one vector per line that is one point per line   *)
(* and start_id plus the number of lines.                                  *)
(***************************************************************************)
C24_OnePointPerPair ==
    ChunkReturned =>
        /\ Len(built) = Min(Len(ChunkLines), Len(ChunkVectors))
        /\ PointsInInputOrder
        /\ current_id = main_id + Len(built)
        /\ (backend = 0 => /\ Len(built) = Len(ChunkLines)
                           /\ current_id = main_id + Len(ChunkLines))

\* a call of two lines for which the backend returned a single vector
C24_Witness ==
    /\ ChunkReturned
    /\ Len(ChunkLines) = 2
    /\ Len(ChunkVectors) = 1
    /\ Len(built) = 1
    /\ main_id = 2
    /\ current_id = 3

(***************************************************************************)
(* Chunks, batches and documents.                                          *)
(***************************************************************************)
\* s is the beginning of t
IsPrefix(s, t) == Len(s) <= Len(t) /\ SubSeq(t, 1, Len(s)) = s

\* every point of the sequence carries the name of the file as title
AllTitled(points, file_path) ==
    \A i \in 1..Len(points) : points[i].title = Title(file_path)

\* the chunks embedded for a file are lines of that file alone, the lines
\* and points waiting in the buffers belong to the file being processed,
\* and every upsert call carried the points of one file
OneDocumentInv ==
    /\ \A f \in 1..Len(files_read) :
          IsPrefix(ChunksOf(f), NonEmptyLines(files_read[f]))
    /\ pc \in { "read", "chunk", "tail_chunk" } =>
          ChunksOf(fi + 1) \o chunk_buffer = NonEmptyLines(files_read[fi + 1])
    /\ InProcessFile => AllTitled(batch_points, file_paths[fi + 1])
    /\ \A k \in 1..Len(upsert_calls) :
          \E f \in 1..Len(file_paths) :
              AllTitled(upsert_calls[k].points, file_paths[f])

SentInOrder ==
    Flatten([k \in 1..Len(upsert_calls) |-> upsert_calls[k].points])

\* the ids of a sequence of points are strictly increasing
StrictlyIncreasingIds(points) ==
    \A i, j \in 1..Len(points) : i < j => points[i].id < points[j].id

\* the calls made by one step: at most one, an embedding call where
\* process_chunk is awaited, an upsert call where upsert_batch is awaited
OneCallPerStep ==
    LET e == Len(embed_calls') - Len(embed_calls)
        u == Len(upsert_calls') - Len(upsert_calls)
    IN  /\ e \in { 0, 1 } /\ u \in { 0, 1 } /\ e + u <= 1
        /\ e = 1 => pc \in { "chunk", "tail_chunk" }
        /\ u = 1 => pc \in { "flush", "tail_flush" }

\* points are built by the step that completes the embedding call of their
\* chunk, and that step puts them at the end of the batch
BuiltAfterEmbedding ==
    built' # built =>
        /\ Len(embed_calls') = Len(embed_calls) + 1
        /\ IsPrefix(built, built')
        /\ batch_points' = batch_points \o SubSeq(built', Len(built) + 1, Len(built'))

\* when a chunk is about to be embedded, the points of every earlier chunk
\* have been sent or wait in the batch
EarlierChunksInBatch ==
    (entry = "main" /\ pc \in { "read", "chunk", "tail_chunk" }) =>
        \E n \in 0..Len(built) :
            /\ batch_points = SubSeq(built, n + 1, Len(built))
            /\ IdsOf(SubSeq(built, 1, n)) \subseteq IdsOf(SentInOrder)

(***************************************************************************)
(* C26: a chunked ingestion run is strictly sequential: every step makes   *)
(* at most one embedding or upsert call and the next call is made by a     *)
(* later step, the points of a chunk are built by the step that completes  *)
(* its embedding call, a chunk is embedded only when the points of the     *)
(* chunks before it are in the batch or sent, and the ids of the points    *)
(* sent by the successive upsert calls of a run are strictly increasing.   *)
(***************************************************************************)
C26_StrictlySequential ==
    /\ [][OneCallPerStep /\ BuiltAfterEmbedding]_vars
    /\ [](entry = "main" =>
            /\ EarlierChunksInBatch
            /\ StrictlyIncreasingIds(SentInOrder)
            /\ StrictlyIncreasingIds(batch_points))

\* three lines, chunks of one line, batches of two: upserts of ids 1, 2 and 3
C26_Witness ==
    /\ entry = "main"
    /\ pc = "done"
    /\ chunk_size = 1
    /\ batch_size = 2
    /\ Len(embed_calls) = 3
    /\ Len(upsert_calls) = 2
    /\ IdsOf(upsert_calls[1].points) = { 1, 2 }
    /\ IdsOf(upsert_calls[2].points) = { 3 }
    /\ upsert_calls[1].points[1].id = 1

(***************************************************************************)
(* Two runs of the repository at the same time.                            *)
(***************************************************************************)
\* the points one run alone builds: one per matched file that is not blank
SingleRunPoints ==
    LET paths == SelectSeq(RepoDiscover(DOMAIN dir.files),
                           LAMBDA p : ~RepoSkips(ReadToString(dir.files[p])))
    IN  [k \in 1..Len(paths) |->
           RepoPoint(paths[k], ReadToString(dir.files[paths[k]]), run)]

\* the collection after one run alone
SingleRunIndex == UpsertPoints(prev.index, SingleRunPoints)

\* a run has upserted successfully
SomeUpsertOk ==
    \/ \E k \in 1..Len(upsert_calls) : upsert_calls[k].ok
    \/ \E k \in 1..Len(peer.calls) : peer.calls[k].ok

(***************************************************************************)
(* C27: two hash-policy runs at the same time over the same unchanged      *)
(* directory, against the same collection and without any lock: however    *)
(* their steps and upsert calls interleave, once a run has upserted the    *)
(* index holds exactly one point per non-empty matched file, the content   *)
(* one run alone leaves, and it stays so to the end of both runs; before   *)
(* that the index is as it was.                                            *)
(***************************************************************************)
C27_ConcurrentRunsConverge ==
    /\ SomeUpsertOk =>
          /\ index = SingleRunIndex
          /\ \A k \in 1..Len(SingleRunPoints) :
                Cardinality({ p \in index :
                                p.file_path = SingleRunPoints[k].file_path }) = 1
    /\ ~SomeUpsertOk => index = prev.index
    /\ (pc = "done" /\ peer.pc = "done" /\ SingleRunPoints # <<>>) => SomeUpsertOk

\* the second run started while the first was in its loop and upserted
\* after it: two files, two points, the stale point replaced
C27_Witness ==
    /\ pc = "done"
    /\ peer.pc = "done"
    /\ peer.began = "repo_loop"
    /\ prev.index = { StaleMatched }
    /\ Len(upsert_calls) = 1 /\ upsert_calls[1].ok
    /\ Len(peer.calls) = 1 /\ peer.calls[1].ok
    /\ peer.calls[1].met = SingleRunIndex
    /\ Len(SingleRunPoints) = 2
    /\ Cardinality(index) = 2
    /\ StaleMatched \notin index

(***************************************************************************)
(* The counter server.                                                     *)
(***************************************************************************)
\* the calls of a tool whose update of the counter is done
Updated(tool) ==
    { k \in 1..Len(tool_calls) :
        tool_calls[k].tool = tool /\ tool_calls[k].pc \in { "stored", "returned" } }

\* the calls between lock().await and the drop of the guard
Holders ==
    { k \in 1..Len(tool_calls) : tool_calls[k].pc \in { "locked", "loaded", "stored" } }

\* every call has ended
AllReturned ==
    \A k \in 1..Len(tool_calls) : tool_calls[k].pc \in { "returned", "panicked" }

(***************************************************************************)
(* C29: the shared counter loses no update: starting from 0, at every      *)
(* moment of every interleaving the counter is the number of increments    *)
(* done minus the number of decrements done, so i - d once i increment     *)
(* and d decrement calls have returned; each increment or decrement        *)
(* returns the decimal form of the value its own update stored, which is   *)
(* one more or one less than the value it loaded; get_value, say_hello,    *)
(* echo and sum leave the counter unchanged.                               *)
(***************************************************************************)
C29_NoLostUpdate ==
    entry = "counter" =>
        /\ counter = Cardinality(Updated("increment")) - Cardinality(Updated("decrement"))
        /\ \A k \in 1..Len(tool_calls) :
              LET c == tool_calls[k]
              IN  /\ (c.tool = "increment" /\ c.pc \in { "stored", "returned" }) =>
                        c.wrote = c.tmp + 1
                  /\ (c.tool = "decrement" /\ c.pc \in { "stored", "returned" }) =>
                        c.wrote = c.tmp - 1
                  /\ (c.tool \in { "increment", "decrement" } /\ c.pc = "returned") =>
                        c.reply = to_string(I32(c.wrote))
                  /\ c.pc \in { "locked", "loaded", "stored" } => lock = "held"
        /\ Cardinality(Holders) <= 1
        /\ AllReturned => lock = "free"

\* two increments and a decrement have returned 1, 0 and 1: the decrement
\* ran between the two increments
C29_Witness ==
    /\ entry = "counter"
    /\ Len(tool_calls) = 3
    /\ AllReturned
    /\ tool_calls[1].tool = "increment" /\ tool_calls[1].reply = << "1" >>
    /\ tool_calls[2].tool = "increment" /\ tool_calls[2].reply = << "1" >>
    /\ tool_calls[3].tool = "decrement" /\ tool_calls[3].reply = << "0" >>
    /\ counter = 1

\* a decrement first, a get_value after it and a sum that overflowed
C29_WitnessOthers ==
    /\ entry = "counter"
    /\ Len(tool_calls) = 3
    /\ AllReturned
    /\ tool_calls[1].tool = "decrement" /\ tool_calls[1].reply = << "-", "1" >>
    /\ tool_calls[2].tool = "get_value" /\ tool_calls[2].reply = << "-", "1" >>
    /\ tool_calls[3].tool = "sum" /\ tool_calls[3].a = I32Max
    /\ counter = 0 - 1

(***************************************************************************)
(* C30 as claimed: for every pair of 32-bit signed integers a and b the    *)
(* sum tool returns the decimal form of the mathematical sum a + b, also   *)
(* when that sum lies outside the 32-bit signed range.                     *)
(***************************************************************************)
C30_Claimed ==
    \A k \in 1..Len(tool_calls) :
        (tool_calls[k].tool = "sum" /\ tool_calls[k].pc # "start") =>
            /\ tool_calls[k].pc = "returned"
            /\ tool_calls[k].reply = to_string(Plus(tool_calls[k].a, tool_calls[k].b))

(***************************************************************************)
(* The size of the upsert calls of process_file.                           *)
(***************************************************************************)
\* batch_size and chunk_size are at least 1 and the backend returns one
\* vector per input
SizesPositive == batch_size >= 1 /\ chunk_size >= 1 /\ backend = 0

\* the step sends an upsert call
UpsertSent == Len(upsert_calls') > Len(upsert_calls)

(***************************************************************************)
(* C31: for batch_size >= 1 and chunk_size >= 1, and a backend that        *)
(* returns one vector per input, every upsert call of process_file carries *)
(* at least 1 and at most batch_size * chunk_size points; a flush inside   *)
(* the read loop carries exactly batch_size * chunk_size points and the    *)
(* flush at the end of the file carries fewer.                             *)
(***************************************************************************)
C31_FlushSizes ==
    /\ [](SizesPositive =>
            \A k \in 1..Len(upsert_calls) :
                /\ Len(upsert_calls[k].points) >= 1
                /\ Len(upsert_calls[k].points) <= batch_size * chunk_size)
    /\ [][(SizesPositive /\ UpsertSent) =>
            /\ pc \in { "flush", "tail_flush" }
            /\ pc = "flush" => Len(NewlySent) = batch_size * chunk_size
            /\ pc = "tail_flush" =>
                  /\ Len(NewlySent) >= 1
                  /\ Len(NewlySent) < batch_size * chunk_size]_vars

\* three lines, chunks of one line, batches of two chunks: a flush of two
\* points inside the loop and a flush of one point at the end of the file
C31_Witness ==
    /\ entry = "main"
    /\ pc = "done"
    /\ chunk_size = 1
    /\ batch_size = 2
    /\ backend = 0
    /\ Len(embed_calls) = 3
    /\ Len(upsert_calls) = 2
    /\ Len(upsert_calls[1].points) = 2
    /\ Len(upsert_calls[2].points) = 1
    /\ upsert_calls[1].ok /\ upsert_calls[2].ok
    /\ index = SeqToSet(built)

(***************************************************************************)
(* The single upsert of upsert_documents_from_directory.                   *)
(***************************************************************************)
\* reading, metadata lookup or embedding of a file has failed, or the
\* building of its point has panicked
FileStepFailed == failure \in { "read", "metadata", "embed", "unwrap" }

(***************************************************************************)
(* C32: upsert_documents_from_directory is all-or-nothing towards the      *)
(* index: a run makes at most one upsert call, and only after the loop has *)
(* gone over every discovered file, the call carrying the points of all    *)
(* non-blank files; when reading, metadata lookup or embedding fails for a *)
(* file, no upsert call is made and no point of any file, the files before *)
(* the failing one included, reaches the index.                            *)
(***************************************************************************)
C32_AllOrNothing ==
    entry = "setup" =>
        /\ Len(upsert_calls) <= 1
        /\ upsert_calls # <<>> =>
              /\ fi = Len(file_paths)
              /\ Len(files_read) = Len(file_paths)
              /\ upsert_calls[1].points = built
              /\ Len(built) = Len(NonBlankPaths)
              /\ ~FileStepFailed
        /\ FileStepFailed =>
              /\ upsert_calls = <<>>
              /\ upsert_invocations = 0
              /\ \A k \in 1..Len(built) : built[k] \notin index
              /\ index \subseteq { StaleDocument }

\* the embedding of the second file failed after the point of the first
\* was built: nothing was sent
C32_Witness ==
    /\ entry = "setup"
    /\ failure = "embed"
    /\ Len(file_paths) = 2
    /\ fi = 1
    /\ Len(built) = 1
    /\ Len(embed_calls) = 2
    /\ upsert_calls = <<>>
    /\ index = {}

(***************************************************************************)
(* The collection of the chunked binary, from one run to the next.         *)
(***************************************************************************)
\* initialize_collection has returned Ok
Initialized == entry = "main" /\ pc \notin { "delete", "create" } /\ failure # "create"

\* what the run has done beyond initialize_collection
NothingRead ==
    /\ file_paths = <<>>
    /\ files_read = <<>>
    /\ embed_calls = <<>>
    /\ upsert_calls = <<>>
    /\ upsert_invocations = 0

(***************************************************************************)
(* C33: the chunked binary starts every run by deleting the collection,    *)
(* going on whatever the answer, and creating it anew: past                *)
(* initialize_collection the collection exists and is empty until the      *)
(* first upsert, it never holds a point the run has not built, so after a  *)
(* successful run it holds exactly the points of that run and the points   *)
(* of earlier runs are gone; a failure to create the collection ends the   *)
(* run with an error before any file is discovered or read.                *)
(***************************************************************************)
C33_CollectionRecreated ==
    /\ [](entry = "main" =>
            /\ pc \in { "delete", "create" } => NothingRead
            /\ failure = "create" =>
                  /\ pc = "failed" /\ result = "Err"
                  /\ NothingRead
            /\ Initialized =>
                  /\ coll_exists
                  /\ index \subseteq SeqToSet(built)
                  /\ StalePoint \notin index
                  /\ upsert_calls = <<>> => index = {}
            /\ pc = "done" => (Initialized /\ index = SeqToSet(built)))
    /\ [][(entry = "main" /\ pc = "delete") => pc' = "create"]_vars
    /\ [][(entry = "main" /\ pc = "create" /\ pc' # "create") =>
            \/ pc' = "glob" /\ index' = {} /\ coll_exists'
            \/ pc' = "failed" /\ failure' = "create"]_vars

\* a second successful run over two files: the collection held the points
\* of the first run, was emptied, and holds the points of the second
C33_Witness ==
    /\ entry = "main"
    /\ run = 2
    /\ pc = "done"
    /\ Cardinality(prev.index) = 2
    /\ Len(file_paths) = 2
    /\ Len(upsert_calls) = 2
    /\ Len(built) = 2
    /\ index = SeqToSet(built)

\* the delete has failed on a collection that holds a stale point: the run
\* goes on to create_collection, which fails and ends it
C33_WitnessDeleteFailed ==
    /\ entry = "main"
    /\ run = 1
    /\ failure = "create"
    /\ pc = "failed"
    /\ index = { StalePoint }
    /\ NothingRead

============================================================================
